---------------------------- MODULE Spec2Model ----------------------------
(***************************************************************************)
(* Model of py-codestyle-conv: the coordinated apply controller            *)
(* (core/output_manager.py), the in-place writer (core/file_writer.py),    *)
(* the per-file text transformer (core/ast_analyzer.py,                    *)
(* core/cross_file_transformer.py) and the rule engine                     *)
(* (core/rule_engine.py).                                                  *)
(*                                                                         *)
(* Text is a sequence of one-character strings.  A name is a non-empty     *)
(* sequence of word characters.                                            *)
(***************************************************************************)
EXTENDS Integers, Sequences, FiniteSets, TLC

(***************************************************************************)
(* Bounds of the model.                                                    *)
(***************************************************************************)
MaxFiles == 4

MaxFaults == 1

(***************************************************************************)
(* Strings.                                                                *)
(***************************************************************************)
RECURSIVE Concat(_)
Concat(ss) == IF ss = <<>> THEN <<>> ELSE Head(ss) \o Concat(Tail(ss))

\* Python's `s in t` on strings
IsSubstr(s, t) ==
    \E i \in 0..(Len(t) - Len(s)) : SubSeq(t, i + 1, i + Len(s)) = s

SeqToSet(s) == {s[i] : i \in 1..Len(s)}

(***************************************************************************)
(* Change descriptions (rule_engine.py:284, 307, 355).  A description is   *)
(* kept as a record and rendered to the text the code builds.              *)
(***************************************************************************)
sRenamed == <<"R","e","n","a","m","e","d"," ">>
sTo == <<"'"," ","t","o"," ","'">>
sMarker == <<"(","c","r","o","s","s","-","f","i","l","e",")">>
sFormatting == <<"A","p","p","l","i","e","d"," ","f","o","r","m","a","t","t","i","n","g"," ","r","u","l","e","s">>
sFunction == <<"f","u","n","c","t","i","o","n">>
sClass == <<"c","l","a","s","s">>
sVariable == <<"v","a","r","i","a","b","l","e">>
sConstant == <<"c","o","n","s","t","a","n","t">>
sMethod == <<"m","e","t","h","o","d">>
sPrivateMethod == <<"p","r","i","v","a","t","e","_","m","e","t","h","o","d">>
sDunderMethod == <<"d","u","n","d","e","r","_","m","e","t","h","o","d">>
sSymbol == <<"s","y","m","b","o","l">>

TypeText(t) ==
    CASE t = "function" -> sFunction
      [] t = "class" -> sClass
      [] t = "variable" -> sVariable
      [] t = "constant" -> sConstant
      [] t = "method" -> sMethod
      [] t = "private_method" -> sPrivateMethod
      [] t = "dunder_method" -> sDunderMethod
      [] OTHER -> sSymbol

RenameChange(t, old, new, cross) ==
    [kind |-> "rename", etype |-> t, old |-> old, new |-> new, cross |-> cross]

FormatChange ==
    [kind |-> "format", etype |-> "", old |-> <<>>, new |-> <<>>, cross |-> FALSE]

\* f"Renamed {type} '{old}' to '{new}'" [+ " (cross-file)"], or "Applied formatting rules"
ChangeText(c) ==
    IF c.kind = "format" THEN sFormatting
    ELSE sRenamed \o TypeText(c.etype) \o <<" ","'">> \o c.old \o sTo \o c.new \o <<"'">>
         \o (IF c.cross THEN <<" ">> \o sMarker ELSE <<>>)

(***************************************************************************)
(* State.                                                                  *)
(***************************************************************************)
VARIABLES
    \* ---- coordinated apply controller (core/output_manager.py)
    results,                  \* the ProcessingResult list handed to the controller
    output_mode,              \* config output.mode
    show_gui,                 \* self.show_diffs and GUI_AVAILABLE
    apply_to_all_definitions, \* controller flag
    skip_all_definitions,     \* controller flag
    quit_requested,           \* controller flag
    pc,                       \* position in process_cross_file_results
    groups,                   \* definition_groups
    gi,                       \* index of the group of the for loop
    ui,                       \* index of the usage file of the cascade loop
    output_results,           \* output_results (CrossFileResult list)
    disk,                     \* content of each source file on disk
    newfiles,                 \* per source file, the indices of the sibling output files that exist
    presented,                \* history: files handed to the confirmation channel, in order
    written,                  \* history: files whose write was attempted, in order
    faults,                   \* number of write faults injected so far
    \* ---- one file under the writer (core/file_writer.py, output_manager.py:382-416)
    w_pc,                     \* position in _write_in_place / _write_new_file
    w_mode,                   \* output mode of the writer
    w_code,                   \* the text the call is asked to write
    w_target,                 \* content of the target file
    w_backup,                 \* content of <target>.backup, or "absent"
    w_out,                    \* content of the sibling output paths, by index, or "absent"
    w_newpath,                \* index of the path _write_new_file has chosen
    w_runs,                   \* number of calls made on the file
    \* ---- one file under the transformers (rule_engine.py:255-374,
    \* ---- cross_file_transformer.py:148-203)
    t_file,                   \* the source file: its lines and what the parser yields
    t_transformations,        \* the transformations dict handed to the transformer
    t_enabled,                \* formatting_rules.enabled: "False", "True" or "None"
    t_comma,                  \* the comma_spacing rule and spaces_after_commas are on
    t_pc,                     \* "loaded", or which transformer has run
    t_code,                   \* the text the transformer returned
    \* ---- the project under main.py's cross-file mode (main.py, rule_engine.py:66-122)
    e_project,                \* the files of the project, as they are on disk at the start of the run
    e_config,                 \* the configuration
    e_pc,                     \* "loaded", then "processed" once process_project has returned
    e_plan,                   \* global_transformations of the run
    e_results,                \* file_results of the run, with the texts
    e_run,                    \* the number of the run of the program on the project
    e_plan_applied,           \* history: the run before wrote every file it had changed
    \* ---- one name under the naming conversions (rule_engine.py:599-675)
    n_name,                   \* the identifier
    n_style,                  \* the target convention
    n_pc,                     \* "loaded", "once" or "twice": how often the name was converted
    n_once,                   \* convert(n_name, n_style)
    n_twice                   \* convert(n_once, n_style)

ctlVars == <<results, output_mode, show_gui, apply_to_all_definitions,
             skip_all_definitions, quit_requested, pc, groups, gi, ui,
             output_results, disk, newfiles, presented, written, faults>>

wVars == <<w_pc, w_mode, w_code, w_target, w_backup, w_out, w_newpath, w_runs>>

tVars == <<t_file, t_transformations, t_enabled, t_comma, t_pc, t_code>>

eVars == <<e_project, e_config, e_pc, e_plan, e_results, e_run, e_plan_applied>>

nVars == <<n_name, n_style, n_pc, n_once, n_twice>>

vars == <<ctlVars, wVars, tVars, eVars, nVars>>

\* what the steps of one component leave alone
nonCtlVars == <<wVars, tVars, eVars, nVars>>
nonWVars == <<ctlVars, tVars, eVars, nVars>>
nonTVars == <<ctlVars, wVars, eVars, nVars>>

(***************************************************************************)
(* ProcessingResult (rule_engine.py:18-26).  Codes are abstract contents:  *)
(* "orig" the text read from the file, "new" the transformed text, "none"  *)
(* for None, "" for the empty text of a failed result; error_message is    *)
(* "None" or "error", the text of the exception.                           *)
(***************************************************************************)
ProcessingResult(f, ok, orig, trans, changes, err) ==
    [file_path |-> f, success |-> ok, original_code |-> orig,
     transformed_code |-> trans, changes_made |-> changes, error_message |-> err]

\* CrossFileResult (output_manager.py:24-33)
CrossFileResult(f, ok, out, err, isdef, skipped, auto) ==
    [file_path |-> f, success |-> ok, output_path |-> out, error_message |-> err,
     is_definition_file |-> isdef, user_skipped |-> skipped, auto_applied |-> auto]

\* output_manager.py:124-128
HasActualChanges(r) ==
    /\ r.transformed_code \notin {"none", ""}
    /\ r.transformed_code # r.original_code
    /\ Len(r.changes_made) > 0

\* output_manager.py:186-195: some change without the "(cross-file)" marker
IsDefinitionFile(r) ==
    \E i \in 1..Len(r.changes_made) : ~IsSubstr(sMarker, ChangeText(r.changes_made[i]))

\* output_manager.py:197-209: group(1) of  '([^']+)' to '([^']+)'  in each change
ExtractChangedSymbols(r) ==
    LET ren == SelectSeq(r.changes_made, LAMBDA c : c.kind = "rename")
    IN  [i \in 1..Len(ren) |-> ren[i].old]

\* output_manager.py:211-217: `symbol in change` for some change and symbol
UsageFileReferencesSymbols(u, symbols) ==
    \E i \in 1..Len(u.changes_made) : \E j \in 1..Len(symbols) :
        IsSubstr(symbols[j], ChangeText(u.changes_made[i]))

DefinitionFileGroup(d, us, syms) ==
    [definition_file |-> d, usage_files |-> us, changed_symbols |-> syms]

\* output_manager.py:130-184
GroupDefinitionAndUsageFiles(rs) ==
    LET definition_files == SelectSeq(rs, IsDefinitionFile)
        usage_files == SelectSeq(rs, LAMBDA r : ~IsDefinitionFile(r))
        defGroups ==
            [i \in 1..Len(definition_files) |->
                LET d == definition_files[i]
                    syms == ExtractChangedSymbols(d)
                IN  DefinitionFileGroup(d,
                        SelectSeq(usage_files, LAMBDA u : UsageFileReferencesSymbols(u, syms)),
                        syms)]
        linked_usage_file_paths ==
            UNION {{g.usage_files[j].file_path : j \in 1..Len(g.usage_files)} :
                      g \in SeqToSet(defGroups)}
        orphaned == SelectSeq(usage_files, LAMBDA u : u.file_path \notin linked_usage_file_paths)
    IN  defGroups \o
        [i \in 1..Len(orphaned) |->
            DefinitionFileGroup(orphaned[i], <<>>, ExtractChangedSymbols(orphaned[i]))]

(***************************************************************************)
(* Writing (output_manager.py:373-416), as one step of the controller.     *)
(* The outcomes of _write_in_place are those of its step machine below     *)
(* (WriterNext): the write completes, or it raises with the target as it   *)
(* was (restored from the backup, or never touched), or it raises and the  *)
(* restoring copy fails too, leaving a partial target.                     *)
(***************************************************************************)
WriteOutcomes == {"ok", "error", "error_dirty"}

\* _write_new_file without the while loop: the numbered path is never probed
NewFileIndexNoProbe(existing) ==
    IF 0 \notin existing THEN 0 ELSE 1

\* output_manager.py:398-416: <stem><suffix><ext>, else the first free <stem><suffix>_<k><ext>;
\* index 0 stands for the unnumbered path
NewFileIndex(existing) ==
    IF 0 \notin existing THEN 0
    ELSE CHOOSE k \in 1..(Cardinality(existing) + 1) :
            /\ k \notin existing
            /\ \A j \in 1..(k - 1) : j \in existing

\* the disk after _write_file_changes(result) ends with `outcome`
DiskAfterWrite(r, outcome) ==
    IF output_mode = "in_place"
    THEN [disk EXCEPT ![r.file_path] =
              CASE outcome = "ok" -> r.transformed_code
                [] outcome = "error" -> @
                [] OTHER -> "partial"]
    ELSE disk

NewFilesAfterWrite(r, outcome) ==
    IF output_mode = "new_files" /\ outcome # "error"
    THEN [newfiles EXCEPT ![r.file_path] =
              @ \cup {[k |-> NewFileIndex({n.k : n \in @}),
                       content |-> IF outcome = "ok" THEN r.transformed_code ELSE "partial"]}]
    ELSE newfiles

\* the path _write_file_changes returns
OutputPath(r) ==
    IF output_mode = "in_place" THEN <<"src", r.file_path>>
    ELSE <<"new", r.file_path, NewFileIndex({n.k : n \in newfiles[r.file_path]})>>

(***************************************************************************)
(* The coordinated apply controller: process_cross_file_results            *)
(* (output_manager.py:60-122).                                             *)
(***************************************************************************)
FailedResult(r) ==
    CrossFileResult(r.file_path, FALSE, "None", "Processing failed", FALSE, FALSE, FALSE)

SkippedResult(r) ==
    CrossFileResult(r.file_path, TRUE, <<"src", r.file_path>>, "None", TRUE, TRUE, FALSE)

QuitResult(r) ==
    CrossFileResult(r.file_path, FALSE, "None", "USER_QUIT", TRUE, TRUE, FALSE)

\* the result of writing file r: output_manager.py:266-285 (definition), 348-371 (usage)
WriteResult(r, outcome, isdef) ==
    IF outcome = "ok"
    THEN CrossFileResult(r.file_path, TRUE, OutputPath(r), "None", isdef, FALSE, ~isdef)
    ELSE CrossFileResult(r.file_path, FALSE, "None", "write error", isdef, FALSE, FALSE)

\* output_manager.py:77-102: the failed results, the grouping
Start ==
    /\ pc = "idle"
    /\ LET failed_results == SelectSeq(results, LAMBDA r : ~r.success)
           successful_results == SelectSeq(results, LAMBDA r : r.success /\ HasActualChanges(r))
       IN  /\ output_results' = [i \in 1..Len(failed_results) |-> FailedResult(failed_results[i])]
           /\ groups' = IF successful_results = <<>> THEN <<>>
                        ELSE GroupDefinitionAndUsageFiles(successful_results)
           /\ pc' = IF successful_results = <<>> THEN "done" ELSE "loop"
    /\ gi' = 1
    /\ UNCHANGED <<results, output_mode, show_gui, apply_to_all_definitions,
                   skip_all_definitions, quit_requested, ui, disk, newfiles,
                   presented, written, faults>>
    /\ UNCHANGED nonCtlVars

\* the loop body without lines 113-120: the usage files are never visited
AfterDefinitionNoCascade(definition_result) ==
    /\ output_results' = Append(output_results, definition_result)
    /\ pc' = IF definition_result.error_message = "USER_QUIT" THEN "done" ELSE "loop"
    /\ gi' = IF definition_result.error_message = "USER_QUIT" THEN gi ELSE gi + 1
    /\ ui' = 1

\* output_manager.py:111-120: what follows definition_result in the loop body
AfterDefinition(definition_result) ==
    LET cascade == definition_result.success /\ ~definition_result.user_skipped
                   /\ groups[gi].usage_files # <<>>
    IN  /\ output_results' = Append(output_results, definition_result)
        /\ pc' = IF definition_result.error_message = "USER_QUIT" THEN "done"
                 ELSE IF cascade THEN "usages" ELSE "loop"
        /\ gi' = IF definition_result.error_message = "USER_QUIT" \/ cascade THEN gi ELSE gi + 1
        /\ ui' = 1

\* a write of `r` that ends with `outcome`
DoWrite(r, outcome) ==
    /\ outcome # "ok" => faults < MaxFaults
    /\ faults' = IF outcome = "ok" THEN faults ELSE faults + 1
    /\ disk' = DiskAfterWrite(r, outcome)
    /\ newfiles' = NewFilesAfterWrite(r, outcome)
    /\ written' = Append(written, r.file_path)

NoWrite == UNCHANGED <<disk, newfiles, written, faults>>

\* the loop without its end at the last group: it only ends on a quit
FinishOnlyOnQuit ==
    /\ pc = "loop"
    /\ quit_requested
    /\ pc' = "done"
    /\ UNCHANGED <<results, output_mode, show_gui, apply_to_all_definitions,
                   skip_all_definitions, quit_requested, groups, gi, ui,
                   output_results, disk, newfiles, presented, written, faults>>
    /\ UNCHANGED nonCtlVars

\* output_manager.py:105-107, end of the loop
Finish ==
    /\ pc = "loop"
    /\ gi > Len(groups) \/ quit_requested
    /\ pc' = "done"
    /\ UNCHANGED <<results, output_mode, show_gui, apply_to_all_definitions,
                   skip_all_definitions, quit_requested, groups, gi, ui,
                   output_results, disk, newfiles, presented, written, faults>>
    /\ UNCHANGED nonCtlVars

\* output_manager.py:225-239, 266-276: a flag of an earlier choice decides
ProcessDefinitionByFlag ==
    /\ pc = "loop" /\ gi <= Len(groups) /\ ~quit_requested
    /\ apply_to_all_definitions \/ skip_all_definitions
    /\ LET r == groups[gi].definition_file
       IN  IF apply_to_all_definitions
           THEN \E outcome \in WriteOutcomes :
                    /\ DoWrite(r, outcome)
                    /\ AfterDefinition(WriteResult(r, outcome, TRUE))
           ELSE /\ NoWrite
                /\ AfterDefinition(SkippedResult(r))
    /\ UNCHANGED <<results, output_mode, show_gui, apply_to_all_definitions,
                   skip_all_definitions, quit_requested, groups, presented>>
    /\ UNCHANGED nonCtlVars

\* _process_definition_file without lines 227-239: the flags of an earlier choice are not read
PresentIgnoringFlags ==
    /\ pc = "loop" /\ gi <= Len(groups) /\ ~quit_requested
    /\ pc' = "confirm"
    /\ presented' = Append(presented, groups[gi].definition_file.file_path)
    /\ UNCHANGED <<results, output_mode, show_gui, apply_to_all_definitions,
                   skip_all_definitions, quit_requested, groups, gi, ui,
                   output_results, disk, newfiles, written, faults>>
    /\ UNCHANGED nonCtlVars

\* output_manager.py:240-242, 287-312: the confirmation channel is called and blocks
Present ==
    /\ pc = "loop" /\ gi <= Len(groups) /\ ~quit_requested
    /\ ~apply_to_all_definitions /\ ~skip_all_definitions
    /\ pc' = "confirm"
    /\ presented' = Append(presented, groups[gi].definition_file.file_path)
    /\ UNCHANGED <<results, output_mode, show_gui, apply_to_all_definitions,
                   skip_all_definitions, quit_requested, groups, gi, ui,
                   output_results, disk, newfiles, written, faults>>
    /\ UNCHANGED nonCtlVars

\* gui/diff_viewer.py:264-280: (self.result == "apply", apply_to_all)
ShowDiffGui(choice, all) == <<choice = "apply", all>>

\* output_manager.py:331-346: y / n / q
ConsoleConfirmation(choice) ==
    CASE choice = "apply" -> "True" [] choice = "skip" -> "False" [] OTHER -> "None"

\* _show_definition_gui with an except clause that gives up: a GUI call that raises reads as Quit
ShouldApplyQuitOnRaise(choice, all, gui_raises) ==
    IF show_gui /\ gui_raises THEN "None"
    ELSE IF show_gui
         THEN IF ShowDiffGui(choice, all)[1] THEN "True" ELSE "False"
         ELSE ConsoleConfirmation(choice)

\* output_manager.py:305-329: the value _show_definition_gui returns
ShouldApply(choice, all, gui_raises) ==
    IF show_gui /\ ~gui_raises
    THEN IF ShowDiffGui(choice, all)[1] THEN "True" ELSE "False"
    ELSE ConsoleConfirmation(choice)

\* lines 314-318 without the test of apply_changes: the ticked box sets apply-all
\* whatever the button
ApplyAllChosenWhateverTheButton(choice, all, gui_raises) ==
    show_gui /\ ~gui_raises /\ ShowDiffGui(choice, all)[2]

\* output_manager.py:314-321
ApplyAllChosen(choice, all, gui_raises) ==
    show_gui /\ ~gui_raises /\ ShowDiffGui(choice, all)[2] /\ ShowDiffGui(choice, all)[1]

SkipAllChosen(choice, all, gui_raises) ==
    show_gui /\ ~gui_raises /\ ShowDiffGui(choice, all)[2] /\ ~ShowDiffGui(choice, all)[1]

\* output_manager.py:242-285: the channel answers with the user's `choice` (the button or the
\* console answer), the "apply to all" checkbox `all`, the GUI call raising or not; the rest
\* of _process_definition_file
DecideWith(choice, all, gui_raises) ==
    /\ pc = "confirm"
    /\ LET r == groups[gi].definition_file
           should_apply == ShouldApply(choice, all, gui_raises)
       IN  /\ apply_to_all_definitions' =
                  (apply_to_all_definitions \/ ApplyAllChosen(choice, all, gui_raises))
           /\ skip_all_definitions' =
                  (skip_all_definitions \/ SkipAllChosen(choice, all, gui_raises))
           /\ quit_requested' = (quit_requested \/ should_apply = "None")
           /\ CASE should_apply = "None" ->
                      NoWrite /\ AfterDefinition(QuitResult(r))
                [] should_apply = "False" ->
                      NoWrite /\ AfterDefinition(SkippedResult(r))
                [] OTHER ->
                      \E outcome \in WriteOutcomes :
                          /\ DoWrite(r, outcome)
                          /\ AfterDefinition(WriteResult(r, outcome, TRUE))
    /\ UNCHANGED <<results, output_mode, show_gui, groups, presented>>
    /\ UNCHANGED nonCtlVars

Decide ==
    \E choice \in {"apply", "skip", "quit"}, all \in BOOLEAN, gui_raises \in BOOLEAN :
        DecideWith(choice, all, gui_raises)

\* output_manager.py:117-120, 348-371: one usage file of the cascade
AutoApplyUsage ==
    /\ pc = "usages"
    /\ LET r == groups[gi].usage_files[ui]
           last == ui = Len(groups[gi].usage_files)
       IN  \E outcome \in WriteOutcomes :
               /\ DoWrite(r, outcome)
               /\ output_results' = Append(output_results, WriteResult(r, outcome, FALSE))
               /\ ui' = IF last THEN 1 ELSE ui + 1
               /\ gi' = IF last THEN gi + 1 ELSE gi
               /\ pc' = IF last THEN "loop" ELSE "usages"
    /\ UNCHANGED <<results, output_mode, show_gui, apply_to_all_definitions,
                   skip_all_definitions, quit_requested, groups, presented>>
    /\ UNCHANGED nonCtlVars

(***************************************************************************)
(* The results handed to the controller.                                   *)
(***************************************************************************)
nX == <<"x">>
nXQ == <<"x", "q">>
nXnew == <<"X">>
nXQnew == <<"X", "Q">>

Local(old, new) == RenameChange("function", old, new, FALSE)
Cross(old, new) == RenameChange("function", old, new, TRUE)

\* local changes first, then the cross-file ones (rule_engine.py:291-307)
ChangeLists ==
    { <<Local(nX, nXnew)>>, <<Local(nXQ, nXQnew)>>,
      <<Cross(nX, nXnew)>>, <<Cross(nXQ, nXQnew)>> }

ResultOptions(f) ==
    { ProcessingResult(f, FALSE, "", "none", <<>>, "error"),   \* rule_engine.py:366-374
      ProcessingResult(f, TRUE, "orig", "orig", <<>>, "None") }   \* rule_engine.py:323-331
    \cup { ProcessingResult(f, TRUE, "orig", "new", cs, "None") : cs \in ChangeLists }

CtlInit ==
    /\ results \in {rs \in [1..MaxFiles -> UNION {ResultOptions(f) : f \in 1..MaxFiles}] :
                       \A f \in 1..MaxFiles : rs[f].file_path = f}
    /\ output_mode \in {"in_place", "new_files"}
    /\ show_gui \in BOOLEAN
    /\ apply_to_all_definitions = FALSE
    /\ skip_all_definitions = FALSE
    /\ quit_requested = FALSE
    /\ pc = "idle"
    /\ groups = <<>>
    /\ gi = 1
    /\ ui = 1
    /\ output_results = <<>>
    /\ disk = [f \in 1..MaxFiles |-> "orig"]
    /\ newfiles = [f \in 1..MaxFiles |-> {}]
    /\ presented = <<>>
    /\ written = <<>>
    /\ faults = 0

(***************************************************************************)
(* The writer, one system call at a time (output_manager.py:382-416, the   *)
(* same code as file_writer.py:71-124).  Contents are classes of text:     *)
(* "orig" the complete text the file had before the first call, "new" the  *)
(* complete transformed text, "partial" any other text (an empty or cut    *)
(* off file, or the transformation of one), "old" a file of someone else.  *)
(***************************************************************************)
MaxRuns == 2
MaxExisting == 2

WResting == {"idle", "returned", "raised", "crashed"}

\* what a call is asked to write: rule_engine.py:319-348 transforms the text it
\* reads from the file at that moment (ast_analyzer.py:43-62)
CodeFor(target) == IF target = "orig" THEN "new" ELSE "partial"

\* shutil.copy2(src, dst) ends in one of: copied, raised before touching dst,
\* raised after truncating dst
CopyOutcomes == {"ok", "fail_clean", "fail_dirty"}

AfterCopy(src, dst, outcome) ==
    CASE outcome = "ok" -> src
      [] outcome = "fail_clean" -> dst
      [] OTHER -> "partial"

\* a run of the tool reaches the write of this file: the first run, or a later
\* run that finds something to change in what the file holds now
WCall ==
    /\ w_pc \in WResting
    /\ w_runs < MaxRuns
    /\ w_target # "new"
    /\ w_runs' = w_runs + 1
    /\ w_code' = CodeFor(w_target)
    /\ w_newpath' = NewFileIndex({k \in DOMAIN w_out : w_out[k] # "absent"})
    /\ w_pc' = IF w_mode = "in_place" THEN "copy_backup" ELSE "nf_open"
    /\ UNCHANGED <<w_mode, w_target, w_backup, w_out>>
    /\ UNCHANGED nonWVars

\* output_manager.py:384-385: the backup copy, outside the try block
WCopyBackup ==
    /\ w_pc = "copy_backup"
    /\ \E outcome \in CopyOutcomes :
          /\ w_backup' = AfterCopy(w_target, w_backup, outcome)
          /\ w_pc' = IF outcome = "ok" THEN "open" ELSE "raised"
    /\ UNCHANGED <<w_mode, w_code, w_target, w_out, w_newpath, w_runs>>
    /\ UNCHANGED nonWVars

\* output_manager.py:388: open(file_path, 'w') truncates the target
WOpen ==
    /\ w_pc = "open"
    /\ \E ok \in BOOLEAN :
          /\ w_target' = IF ok THEN "partial" ELSE w_target
          /\ w_pc' = IF ok THEN "write" ELSE "restore"
    /\ UNCHANGED <<w_mode, w_code, w_backup, w_out, w_newpath, w_runs>>
    /\ UNCHANGED nonWVars

\* output_manager.py:388-389: f.write(transformed_code) and the close of the file
WWrite ==
    /\ w_pc = "write"
    /\ \E ok \in BOOLEAN :
          /\ w_target' = IF ok THEN w_code ELSE "partial"
          /\ w_pc' = IF ok THEN "unlink" ELSE "restore"
    /\ UNCHANGED <<w_mode, w_code, w_backup, w_out, w_newpath, w_runs>>
    /\ UNCHANGED nonWVars

\* output_manager.py:390-391: backup_path.unlink(), then return
WUnlink ==
    /\ w_pc = "unlink"
    /\ \E ok \in BOOLEAN :
          /\ w_backup' = IF ok THEN "absent" ELSE w_backup
          /\ w_pc' = IF ok THEN "returned" ELSE "restore"
    /\ UNCHANGED <<w_mode, w_code, w_target, w_out, w_newpath, w_runs>>
    /\ UNCHANGED nonWVars

\* output_manager.py:392-394: except: if backup_path.exists(): copy2(backup, file);
\* an exception of the copy leaves the handler
WRestore ==
    /\ w_pc = "restore"
    /\ IF w_backup = "absent"
       THEN /\ w_pc' = "raised"
            /\ UNCHANGED w_target
       ELSE \E outcome \in CopyOutcomes :
               /\ w_target' = AfterCopy(w_backup, w_target, outcome)
               /\ w_pc' = IF outcome = "ok" THEN "restore_unlink" ELSE "raised"
    /\ UNCHANGED <<w_mode, w_code, w_backup, w_out, w_newpath, w_runs>>
    /\ UNCHANGED nonWVars

\* output_manager.py:395-396: backup_path.unlink(); raise e
WRestoreUnlink ==
    /\ w_pc = "restore_unlink"
    /\ \E ok \in BOOLEAN :
          w_backup' = IF ok THEN "absent" ELSE w_backup
    /\ w_pc' = "raised"
    /\ UNCHANGED <<w_mode, w_code, w_target, w_out, w_newpath, w_runs>>
    /\ UNCHANGED nonWVars

\* output_manager.py:413: open(new_path, 'w') creates the chosen path
WNewOpen ==
    /\ w_pc = "nf_open"
    /\ \E ok \in BOOLEAN :
          /\ w_out' = IF ok THEN [w_out EXCEPT ![w_newpath] = "partial"] ELSE w_out
          /\ w_pc' = IF ok THEN "nf_write" ELSE "raised"
    /\ UNCHANGED <<w_mode, w_code, w_target, w_backup, w_newpath, w_runs>>
    /\ UNCHANGED nonWVars

\* output_manager.py:413-416: f.write(transformed_code), close, return new_path
WNewWrite ==
    /\ w_pc = "nf_write"
    /\ \E ok \in BOOLEAN :
          /\ w_out' = [w_out EXCEPT ![w_newpath] = IF ok THEN w_code ELSE "partial"]
          /\ w_pc' = IF ok THEN "returned" ELSE "raised"
    /\ UNCHANGED <<w_mode, w_code, w_target, w_backup, w_newpath, w_runs>>
    /\ UNCHANGED nonWVars

\* the process is killed or the machine stops between two system calls
WCrash ==
    /\ w_pc \notin WResting
    /\ w_pc' = "crashed"
    /\ UNCHANGED <<w_mode, w_code, w_target, w_backup, w_out, w_newpath, w_runs>>
    /\ UNCHANGED nonWVars

\* the writer before any call
WIdle ==
    /\ w_pc = "idle"
    /\ w_code = "new"
    /\ w_target = "orig"
    /\ w_newpath = 0
    /\ w_runs = 0

\* the controller before process_cross_file_results is called
CtlIdle ==
    /\ results = [f \in 1..MaxFiles |-> ProcessingResult(f, TRUE, "orig", "orig", <<>>, "None")]
    /\ output_mode = w_mode
    /\ show_gui = FALSE
    /\ apply_to_all_definitions = FALSE
    /\ skip_all_definitions = FALSE
    /\ quit_requested = FALSE
    /\ pc = "idle"
    /\ groups = <<>>
    /\ gi = 1
    /\ ui = 1
    /\ output_results = <<>>
    /\ disk = [f \in 1..MaxFiles |-> "orig"]
    /\ newfiles = [f \in 1..MaxFiles |-> {}]
    /\ presented = <<>>
    /\ written = <<>>
    /\ faults = 0

\* no file under the transformers
TIdle ==
    /\ t_file = <<>>
    /\ t_transformations = <<>>
    /\ t_enabled = "None"
    /\ t_comma = FALSE
    /\ t_pc = "idle"
    /\ t_code = <<>>

\* no project under the rule engine
EIdle ==
    /\ e_project = <<>>
    /\ e_config = <<>>
    /\ e_pc = "idle"
    /\ e_plan = <<>>
    /\ e_results = <<>>
    /\ e_run = 0
    /\ e_plan_applied = FALSE

\* no name under the naming conversions
NIdle ==
    /\ n_name = <<>>
    /\ n_style = ""
    /\ n_pc = "idle"
    /\ n_once = <<>>
    /\ n_twice = <<>>

\* one file, with or without a backup left by an earlier program and with any
\* set of sibling output paths already taken
WInit ==
    /\ WIdle
    /\ w_mode \in {"in_place", "new_files"}
    /\ w_backup \in {"absent", "old"}
    /\ \E existing \in SUBSET (0..MaxExisting) :
          w_out = [k \in 0..(MaxExisting + MaxRuns) |->
                      IF k \in existing THEN "old" ELSE "absent"]
    /\ CtlIdle
    /\ TIdle
    /\ EIdle
    /\ NIdle

WNext ==
    \/ WCall
    \/ WCopyBackup
    \/ WOpen
    \/ WWrite
    \/ WUnlink
    \/ WRestore
    \/ WRestoreUnlink
    \/ WNewOpen
    \/ WNewWrite
    \/ WCrash

SpecWriter == WInit /\ [][WNext]_vars


(***************************************************************************)
(* Source text as a sequence of characters, and the regular expressions    *)
(* the transformers apply to it.                                           *)
(***************************************************************************)
LowerChars == {"a","b","c","d","e","f","g","h","i","j","k","l","m",
               "n","o","p","q","r","s","t","u","v","w","x","y","z"}
UpperChars == {"A","B","C","D","E","F","G","H","I","J","K","L","M",
               "N","O","P","Q","R","S","T","U","V","W","X","Y","Z"}
DigitChars == {"0","1","2","3","4","5","6","7","8","9"}

\* \w of the re module, on the characters the texts use
WordChars == LowerChars \cup UpperChars \cup DigitChars \cup {"_"}

IsWordAt(text, k) == k \in 1..Len(text) /\ text[k] \in WordChars

\* \b at the gap in front of position i
Boundary(text, i) == IsWordAt(text, i - 1) # IsWordAt(text, i)

StartsAt(text, i, pat) ==
    /\ i >= 1
    /\ i + Len(pat) - 1 <= Len(text)
    /\ SubSeq(text, i, i + Len(pat) - 1) = pat

\* \s of the re module, on the characters the texts use
Whitespace == {" ", "\n", "\t"}

\* the first position from i on that holds no whitespace: where \s* stops
RECURSIVE SkipSpaces(_, _)
SkipSpaces(text, i) ==
    IF i <= Len(text) /\ text[i] \in Whitespace THEN SkipSpaces(text, i + 1) ELSE i

\* the last position up to i that holds no whitespace
RECURSIVE SkipSpacesBack(_, _)
SkipSpacesBack(text, i) ==
    IF i >= 1 /\ text[i] \in Whitespace THEN SkipSpacesBack(text, i - 1) ELSE i

\* \b<kw>\s+ ends right in front of position i
PrecededByKeyword(text, i, kw) ==
    LET j == SkipSpacesBack(text, i - 1)
    IN  /\ j < i - 1
        /\ StartsAt(text, j - Len(kw) + 1, kw)
        /\ Boundary(text, j - Len(kw) + 1)

\* the lookahead (?=\s*<c>) at position j
LookingAt(text, j, c) ==
    LET k == SkipSpaces(text, j) IN k <= Len(text) /\ text[k] = c

\* \b<old>\b at position i
WordMatchAt(text, i, old) ==
    /\ StartsAt(text, i, old)
    /\ Boundary(text, i)
    /\ Boundary(text, i + Len(old))

(***************************************************************************)
(* Length of the match of a pattern at position i, 0 when there is none.   *)
(*   "word"    \b<old>\b                 ast_analyzer.py:321                *)
(*   "attr"    \.<old>\b                 ast_analyzer.py:325                *)
(*   "call"    \b<old>\b(?=\s*\()        cross_file_transformer.py:347      *)
(*   "assign"  \b<old>\b(?=\s*=)         cross_file_transformer.py:351      *)
(* and the definition patterns of cross_file_transformer.py:391-399, which *)
(* put the text around <old> back as it was, taken at the position of      *)
(* <old>:                                                                  *)
(*   "classdef" (\bclass\s+)<old>(\s*\([^)]*\)?)                           *)
(*   "def"      (\bdef\s+)<old>(\s*\()                                     *)
(*   "asyncdef" (\basync\s+def\s+)<old>(\s*\()                            *)
(*   "vardef"   (^|\s+)(<old>)(\s*=)   with re.MULTILINE                   *)
(***************************************************************************)
PatternMatchLen(kind, text, i, old) ==
    CASE kind = "word" -> IF WordMatchAt(text, i, old) THEN Len(old) ELSE 0
      [] kind = "attr" ->
            IF /\ text[i] = "."
               /\ StartsAt(text, i + 1, old)
               /\ Boundary(text, i + 1 + Len(old))
            THEN Len(old) + 1 ELSE 0
      [] kind = "call" ->
            IF WordMatchAt(text, i, old) /\ LookingAt(text, i + Len(old), "(")
            THEN Len(old) ELSE 0
      [] kind = "assign" ->
            IF WordMatchAt(text, i, old) /\ LookingAt(text, i + Len(old), "=")
            THEN Len(old) ELSE 0
      [] kind = "classdef" ->
            IF /\ StartsAt(text, i, old)
               /\ PrecededByKeyword(text, i, <<"c","l","a","s","s">>)
               /\ LookingAt(text, i + Len(old), "(")
            THEN Len(old) ELSE 0
      [] kind = "def" ->
            IF /\ StartsAt(text, i, old)
               /\ PrecededByKeyword(text, i, <<"d","e","f">>)
               /\ LookingAt(text, i + Len(old), "(")
            THEN Len(old) ELSE 0
      [] kind = "asyncdef" ->
            IF /\ StartsAt(text, i, old)
               /\ PrecededByKeyword(text, i, <<"d","e","f">>)
               /\ PrecededByKeyword(text, SkipSpacesBack(text, i - 1) - 2, <<"a","s","y","n","c">>)
               /\ LookingAt(text, i + Len(old), "(")
            THEN Len(old) ELSE 0
      [] kind = "vardef" ->
            IF /\ StartsAt(text, i, old)
               /\ (i = 1 \/ text[i - 1] \in Whitespace)
               /\ LookingAt(text, i + Len(old), "=")
            THEN Len(old) ELSE 0

PatternReplacement(kind, new) == IF kind = "attr" THEN <<".">> \o new ELSE new

\* re.sub(pattern, replacement, text): leftmost non-overlapping matches
RECURSIVE ReSubFrom(_, _, _, _, _)
ReSubFrom(kind, text, i, old, new) ==
    IF i > Len(text) THEN <<>>
    ELSE LET n == PatternMatchLen(kind, text, i, old)
         IN  IF n > 0
             THEN PatternReplacement(kind, new) \o ReSubFrom(kind, text, i + n, old, new)
             ELSE <<text[i]>> \o ReSubFrom(kind, text, i + 1, old, new)

ReSub(kind, text, old, new) == ReSubFrom(kind, text, 1, old, new)

\* str.replace(pat, rep): every occurrence of the substring, boundaries or not
RECURSIVE StrReplaceFrom(_, _, _, _)
StrReplaceFrom(text, i, pat, rep) ==
    IF i > Len(text) THEN <<>>
    ELSE IF StartsAt(text, i, pat)
         THEN rep \o StrReplaceFrom(text, i + Len(pat), pat, rep)
         ELSE <<text[i]>> \o StrReplaceFrom(text, i + 1, pat, rep)

StrReplace(text, pat, rep) == StrReplaceFrom(text, 1, pat, rep)

\* len(re.findall(rf'\b{old}\b', text))
RECURSIVE CountWordFrom(_, _, _)
CountWordFrom(text, i, old) ==
    IF i > Len(text) THEN 0
    ELSE IF WordMatchAt(text, i, old)
         THEN 1 + CountWordFrom(text, i + Len(old), old)
         ELSE CountWordFrom(text, i + 1, old)

CountWord(text, old) == CountWordFrom(text, 1, old)

(***************************************************************************)
(* A transformations dict is a sequence of <<old, new>> pairs in insertion *)
(* order, with distinct old names.                                         *)
(***************************************************************************)
OldNames(m) == {m[i][1] : i \in 1..Len(m)}
NewNames(m) == {m[i][2] : i \in 1..Len(m)}
\* dict lookup m[old]
Lookup(m, old) == m[CHOOSE i \in 1..Len(m) : m[i][1] = old][2]

\* sorted(m.items(), key=lambda x: len(x[0]), reverse=True): stable
RECURSIVE SortedTransformations(_)
SortedTransformations(m) ==
    IF m = <<>> THEN <<>>
    ELSE LET front == SortedTransformations(SubSeq(m, 1, Len(m) - 1))
             p == m[Len(m)]
             k == Cardinality({j \in 1..Len(front) : Len(front[j][1]) >= Len(p[1])})
         IN  SubSeq(front, 1, k) \o <<p>> \o SubSeq(front, k + 1, Len(front))

\* ast_analyzer.py:318-327: one pair of the loop
SubstituteOne(text, old, new) ==
    ReSub("attr", ReSub("word", text, old, new), old, new)

RECURSIVE SubstituteAll(_, _)
SubstituteAll(text, pairs) ==
    IF pairs = <<>> THEN text
    ELSE SubstituteAll(SubstituteOne(text, pairs[1][1], pairs[1][2]), Tail(pairs))

\* ast_analyzer.py:296-329
ApplyTransformationsPreserveFormatting(original_source, transformations) ==
    IF transformations = <<>> THEN original_source
    ELSE SubstituteAll(original_source, SortedTransformations(transformations))


(***************************************************************************)
(* Naming conventions (rule_engine.py:599-675), on names as sequences of   *)
(* characters.                                                             *)
(***************************************************************************)
LowerSeq == <<"a","b","c","d","e","f","g","h","i","j","k","l","m",
              "n","o","p","q","r","s","t","u","v","w","x","y","z">>
UpperSeq == <<"A","B","C","D","E","F","G","H","I","J","K","L","M",
              "N","O","P","Q","R","S","T","U","V","W","X","Y","Z">>

\* str.lower() and str.upper() of one character
LowerOf(c) ==
    IF c \in UpperChars THEN LowerSeq[CHOOSE i \in 1..Len(UpperSeq) : UpperSeq[i] = c] ELSE c
UpperOf(c) ==
    IF c \in LowerChars THEN UpperSeq[CHOOSE i \in 1..Len(LowerSeq) : LowerSeq[i] = c] ELSE c

StrLower(name) == [i \in 1..Len(name) |-> LowerOf(name[i])]
StrUpper(name) == [i \in 1..Len(name) |-> UpperOf(name[i])]

\* str.islower() and str.isupper(): a cased character, and none of the other case
IsLower(name) ==
    /\ \E i \in 1..Len(name) : name[i] \in LowerChars
    /\ \A i \in 1..Len(name) : name[i] \notin UpperChars
IsUpper(name) ==
    /\ \E i \in 1..Len(name) : name[i] \in UpperChars
    /\ \A i \in 1..Len(name) : name[i] \notin LowerChars

\* word.capitalize()
Capitalize(word) ==
    [i \in 1..Len(word) |-> IF i = 1 THEN UpperOf(word[i]) ELSE LowerOf(word[i])]

\* name.split('_')
RECURSIVE SplitFrom(_, _, _)
SplitFrom(name, i, part) ==
    IF i > Len(name) THEN <<part>>
    ELSE IF name[i] = "_" THEN <<part>> \o SplitFrom(name, i + 1, <<>>)
    ELSE SplitFrom(name, i + 1, Append(part, name[i]))

\* name.lstrip('_') and name.rstrip('_')
RECURSIVE LStrip(_)
LStrip(name) == IF name # <<>> /\ name[1] = "_" THEN LStrip(Tail(name)) ELSE name
RECURSIVE RStrip(_)
RStrip(name) ==
    IF name # <<>> /\ name[Len(name)] = "_" THEN RStrip(SubSeq(name, 1, Len(name) - 1))
    ELSE name

\* re.sub('([a-z0-9])([A-Z])', r'\1_\2', name)
RECURSIVE UnderscoreBeforeUpper(_, _)
UnderscoreBeforeUpper(name, i) ==
    IF i > Len(name) THEN <<>>
    ELSE IF /\ i < Len(name)
            /\ name[i] \in LowerChars \cup DigitChars
            /\ name[i + 1] \in UpperChars
         THEN <<name[i], "_", name[i + 1]>> \o UnderscoreBeforeUpper(name, i + 2)
         ELSE <<name[i]>> \o UnderscoreBeforeUpper(name, i + 1)

\* the last position of the run of uppercase letters that starts at i
RECURSIVE UpperRunEnd(_, _)
UpperRunEnd(name, i) ==
    IF i < Len(name) /\ name[i + 1] \in UpperChars THEN UpperRunEnd(name, i + 1) ELSE i

\* re.sub('([A-Z]+)([A-Z][a-z])', r'\1_\2', name)
RECURSIVE UnderscoreInUpperRun(_, _)
UnderscoreInUpperRun(name, i) ==
    IF i > Len(name) THEN <<>>
    ELSE LET e == UpperRunEnd(name, i)
         IN  IF /\ name[i] \in UpperChars
                /\ e > i
                /\ e < Len(name)
                /\ name[e + 1] \in LowerChars
             THEN SubSeq(name, i, e - 1) \o <<"_", name[e], name[e + 1]>>
                      \o UnderscoreInUpperRun(name, e + 2)
             ELSE <<name[i]>> \o UnderscoreInUpperRun(name, i + 1)

\* rule_engine.py:633-646
ToSnakeCase(name) ==
    IF "_" \in SeqToSet(name) /\ IsLower(name) THEN name
    ELSE StrLower(UnderscoreInUpperRun(UnderscoreBeforeUpper(name, 1), 1))

RECURSIVE CapitalizeAll(_)
CapitalizeAll(parts) ==
    IF parts = <<>> THEN <<>> ELSE Capitalize(parts[1]) \o CapitalizeAll(Tail(parts))

\* rule_engine.py:648-656
ToCamelCase(name) ==
    IF "_" \in SeqToSet(name)
    THEN LET parts == SplitFrom(StrLower(name), 1, <<>>)
         IN  parts[1] \o CapitalizeAll(Tail(parts))
    ELSE IF name # <<>> THEN <<LowerOf(name[1])>> \o Tail(name) ELSE name

\* rule_engine.py:658-666
ToPascalCase(name) ==
    IF "_" \in SeqToSet(name)
    THEN CapitalizeAll(SplitFrom(StrLower(name), 1, <<>>))
    ELSE IF name # <<>> THEN <<UpperOf(name[1])>> \o Tail(name) ELSE name

\* rule_engine.py:668-675
ToUpperCase(name) ==
    IF "_" \in SeqToSet(name) THEN StrUpper(name) ELSE StrUpper(ToSnakeCase(name))

\* rule_engine.py:599-631
ConvertNamingConvention(name, target_convention) ==
    CASE target_convention = "snake_case" -> ToSnakeCase(name)
      [] target_convention = "camelCase" -> ToCamelCase(name)
      [] target_convention = "PascalCase" -> ToPascalCase(name)
      [] target_convention = "UPPER_CASE" -> ToUpperCase(name)
      [] target_convention = "_snake_case" -> <<"_">> \o ToSnakeCase(LStrip(name))
      [] target_convention = "_camelCase" -> <<"_">> \o ToCamelCase(LStrip(name))
      [] target_convention = "__snake_case__" ->
            <<"_", "_">> \o ToSnakeCase(RStrip(LStrip(name))) \o <<"_", "_">>
      [] target_convention = "__camelCase__" ->
            <<"_", "_">> \o ToCamelCase(RStrip(LStrip(name))) \o <<"_", "_">>
      [] OTHER -> name


(***************************************************************************)
(* Source files.  A file is a sequence of lines; a line is its raw text    *)
(* together with what ast.parse yields for it: a statement node, none for  *)
(* a line that holds only a comment, an error for a line the parser        *)
(* rejects.  (The parser is an external component; the lines below are the *)
(* inputs the model gives it.)                                             *)
(***************************************************************************)
nFoo == <<"F","o","o">>
nThing == <<"T","h","i","n","g">>
nF == <<"F">>
nItem == <<"i","t","e","m">>
nItemId == <<"i","t","e","m","_","i","d">>
nEntry == <<"e","n","t","r","y">>
nEntryId == <<"e","n","t","r","y","_","i","d">>
nMod == <<"m","o","d">>
nObj == <<"o","b","j">>

kwFrom == <<"f","r","o","m">>
kwImport == <<"i","m","p","o","r","t">>
kwAs == <<"a","s">>
kwDef == <<"d","e","f">>
kwClass == <<"c","l","a","s","s">>
kwPass == <<"p","a","s","s">>
kwAsync == <<"a","s","y","n","c">>
SP == <<" ">>
NL == <<"\n">>
Indent == <<" ", " ", " ", " ">>

\* ast nodes
Name(id) == [type |-> "Name", id |-> id]
Attribute(value, attr) == [type |-> "Attribute", value |-> value, attr |-> attr]
Call(func) == [type |-> "Call", func |-> func]
Expr(value) == [type |-> "Expr", value |-> value]
Assign(target, value) == [type |-> "Assign", target |-> target, value |-> value]
FunctionDef(name) == [type |-> "FunctionDef", name |-> name]
ClassDef(name) == [type |-> "ClassDef", name |-> name]
alias(name, asname) == [name |-> name, asname |-> asname]
ImportFrom(module, names) == [type |-> "ImportFrom", module |-> module, names |-> names]
\* an expression without names, with the text the generator writes for it
Constant(source) == [type |-> "Constant", source |-> source]

\* what the parser yields for a line without a statement, and for a line it rejects
NoStatement == [type |-> "none"]
ParseError == [type |-> "error"]

\* asname of an import without "as"
NoName == <<>>

Line(text, node) == [text |-> text, node |-> node]

LinePool ==
    { Line(kwFrom \o SP \o nMod \o SP \o kwImport \o SP \o nFoo,
           ImportFrom(nMod, <<alias(nFoo, NoName)>>)),
      Line(kwFrom \o SP \o nMod \o SP \o kwImport \o SP \o nFoo \o SP \o kwAs \o SP \o nF,
           ImportFrom(nMod, <<alias(nFoo, nF)>>)),
      Line(kwFrom \o SP \o nMod \o SP \o kwImport \o SP \o nItemId \o <<",", " ">> \o nItem,
           ImportFrom(nMod, <<alias(nItemId, NoName), alias(nItem, NoName)>>)),
      Line(nFoo \o <<"(", ")">>, Expr(Call(Name(nFoo)))),
      Line(nF \o <<"(", ")">> \o <<" ", " ", "#", " ">> \o nFoo, Expr(Call(Name(nF)))),
      Line(nItemId \o <<"=">> \o nItem, Assign(Name(nItemId), Name(nItem))),
      Line(nObj \o <<".">> \o nItem \o <<"(", ")">>,
           Expr(Call(Attribute(Name(nObj), nItem)))),
      Line(kwDef \o SP \o nItem \o <<"(", ")", ":", " ">> \o kwPass, FunctionDef(nItem)),
      Line(kwClass \o SP \o nFoo \o <<":", " ">> \o kwPass, ClassDef(nFoo)),
      Line(<<"#", " ">> \o nItem \o SP \o nFoo, NoStatement),
      Line(<<")">>, ParseError) }

\* the raw text of a file: every line ends with a newline
RECURSIVE FileText(_)
FileText(file) ==
    IF file = <<>> THEN <<>> ELSE file[1].text \o NL \o FileText(Tail(file))

\* ast.parse succeeds
Parses(file) == \A i \in 1..Len(file) : file[i].node.type # "error"

\* the body of the Module node: the statements, in order, with their line numbers
RECURSIVE ModuleBodyFrom(_, _)
ModuleBodyFrom(file, i) ==
    IF i > Len(file) THEN <<>>
    ELSE IF file[i].node.type = "none" THEN ModuleBodyFrom(file, i + 1)
    ELSE <<[node |-> file[i].node, lineno |-> i]>> \o ModuleBodyFrom(file, i + 1)

ModuleBody(file) == ModuleBodyFrom(file, 1)

\* dict membership and lookup by name
Renamed(name_map, id) == IF id \in OldNames(name_map) THEN Lookup(name_map, id) ELSE id

\* ast_analyzer.py:248-276: NameTransformer.visit; nodes without a visit_ method
\* (ImportFrom and its aliases among them) go through generic_visit unchanged
RECURSIVE Visit(_, _)
Visit(node, name_map) ==
    CASE node.type = "Name" -> Name(Renamed(name_map, node.id))
      [] node.type = "Attribute" ->
            Attribute(Visit(node.value, name_map), Renamed(name_map, node.attr))
      [] node.type = "Call" -> Call(Visit(node.func, name_map))
      [] node.type = "Expr" -> Expr(Visit(node.value, name_map))
      [] node.type = "Assign" ->
            Assign(Visit(node.target, name_map), Visit(node.value, name_map))
      [] node.type = "FunctionDef" -> FunctionDef(Renamed(name_map, node.name))
      [] node.type = "ClassDef" -> ClassDef(Renamed(name_map, node.name))
      [] node.type = "ImportFrom" -> node
      [] node.type = "Constant" -> node

RECURSIVE AliasesToSource(_)
AliasesToSource(names) ==
    IF names = <<>> THEN <<>>
    ELSE (names[1].name
          \o (IF names[1].asname = NoName THEN <<>> ELSE SP \o kwAs \o SP \o names[1].asname)
          \o (IF Len(names) > 1 THEN <<",", " ">> ELSE <<>>)
          \o AliasesToSource(Tail(names)))

\* astor.to_source of one node: the generator's own layout, no comments
RECURSIVE ToSource(_)
ToSource(node) ==
    CASE node.type = "Name" -> node.id
      [] node.type = "Constant" -> node.source
      [] node.type = "Attribute" -> ToSource(node.value) \o <<".">> \o node.attr
      [] node.type = "Call" -> ToSource(node.func) \o <<"(", ")">>
      [] node.type = "Expr" -> ToSource(node.value) \o NL
      [] node.type = "Assign" ->
            ToSource(node.target) \o <<" ", "=", " ">> \o ToSource(node.value) \o NL
      [] node.type = "FunctionDef" ->
            kwDef \o SP \o node.name \o <<"(", ")", ":">> \o NL \o Indent \o kwPass \o NL
      [] node.type = "ClassDef" ->
            kwClass \o SP \o node.name \o <<":">> \o NL \o Indent \o kwPass \o NL
      [] node.type = "ImportFrom" ->
            kwFrom \o SP \o node.module \o SP \o kwImport \o SP
                \o AliasesToSource(node.names) \o NL

RECURSIVE BodyToSource(_, _)
BodyToSource(body, name_map) ==
    IF body = <<>> THEN <<>>
    ELSE ToSource(Visit(body[1].node, name_map)) \o BodyToSource(Tail(body), name_map)

\* ast_analyzer.py:235-294: rename in the tree, then regenerate the text from it
ApplyTransformations(file, transformations) ==
    BodyToSource(ModuleBody(file), transformations)


(***************************************************************************)
(* cross_file_transformer.py: imports, then usages, then definitions.      *)
(***************************************************************************)
\* \b<old>\s+as\s+<asname>\b at position i: its length, 0 when there is none
ImportAsMatchLen(text, i, old, asname) ==
    LET j1 == i + Len(old)
        j2 == SkipSpaces(text, j1)
        j3 == j2 + Len(kwAs)
        j4 == SkipSpaces(text, j3)
    IN  IF /\ WordMatchAt(text, i, old)
           /\ j2 > j1
           /\ StartsAt(text, j2, kwAs)
           /\ j4 > j3
           /\ StartsAt(text, j4, asname)
           /\ Boundary(text, j4 + Len(asname))
        THEN j4 + Len(asname) - i ELSE 0

\* cross_file_transformer.py:244-247, 256: re.sub with replacement '<new> as <asname>'
RECURSIVE ReSubImportAsFrom(_, _, _, _, _)
ReSubImportAsFrom(text, i, old, asname, new) ==
    IF i > Len(text) THEN <<>>
    ELSE LET n == ImportAsMatchLen(text, i, old, asname)
         IN  IF n > 0
             THEN new \o SP \o kwAs \o SP \o asname
                      \o ReSubImportAsFrom(text, i + n, old, asname, new)
             ELSE <<text[i]>> \o ReSubImportAsFrom(text, i + 1, old, asname, new)

\* cross_file_transformer.py:233-260: the aliases of one ImportFrom node, on its line
RECURSIVE UpdateImportLine(_, _, _)
UpdateImportLine(line_text, names, transformations) ==
    IF names = <<>> THEN line_text
    ELSE LET a == names[1]
             new_line ==
                 IF a.name \notin OldNames(transformations) THEN line_text
                 ELSE IF a.asname # NoName
                      THEN ReSubImportAsFrom(line_text, 1, a.name, a.asname,
                                             Lookup(transformations, a.name))
                      ELSE ReSub("word", line_text, a.name, Lookup(transformations, a.name))
         IN  UpdateImportLine(new_line, Tail(names), transformations)

\* '\n'.join(lines)
RECURSIVE JoinLines(_)
JoinLines(lines) ==
    IF lines = <<>> THEN <<>>
    ELSE IF Len(lines) = 1 THEN lines[1]
    ELSE lines[1] \o NL \o JoinLines(Tail(lines))

(***************************************************************************)
(* cross_file_transformer.py:303-316, one name of the loop of the fallback *)
(* for a text that does not parse.  The pattern                            *)
(*   (\bfrom\s+\w+(?:\.\w+)*\s+import\s+.*?\b)(<old>)(\b)                  *)
(* matches from a "from" to the first whole-word <old> behind its "import" *)
(* on the same line; the match is rewritten with str.replace and put back  *)
(* with str.replace.                                                       *)
(***************************************************************************)
\* where \w+(?:\.\w+)* stops
RECURSIVE SkipDotted(_, _)
SkipDotted(text, i) ==
    IF i <= Len(text) /\ text[i] \in WordChars \cup {"."} THEN SkipDotted(text, i + 1) ELSE i

\* the position behind "from <module> import " for a match starting at i, else 0
FromImportEnd(text, i) ==
    LET j1 == i + Len(kwFrom)
        j2 == SkipSpaces(text, j1)
        j3 == SkipDotted(text, j2)
        j4 == SkipSpaces(text, j3)
        j5 == j4 + Len(kwImport)
    IN  IF /\ StartsAt(text, i, kwFrom)
           /\ Boundary(text, i)
           /\ j2 > j1 /\ j3 > j2 /\ j4 > j3
           /\ StartsAt(text, j4, kwImport)
           /\ j5 <= Len(text) /\ text[j5] \in Whitespace
        THEN j5 + 1 ELSE 0

\* the first whole-word <old> from position j on, before the line ends; else 0
RECURSIVE FirstWordOnLine(_, _, _)
FirstWordOnLine(text, j, old) ==
    IF j > Len(text) THEN 0
    ELSE IF WordMatchAt(text, j, old) THEN j
    ELSE IF text[j] = "\n" THEN 0
    ELSE FirstWordOnLine(text, j + 1, old)

\* the texts match.group(0) of re.finditer, left to right
RECURSIVE FromImportMatches(_, _, _)
FromImportMatches(text, i, old) ==
    IF i > Len(text) THEN <<>>
    ELSE LET e == FromImportEnd(text, i)
             p == IF e = 0 THEN 0 ELSE FirstWordOnLine(text, e, old)
         IN  IF p = 0 THEN FromImportMatches(text, i + 1, old)
             ELSE <<SubSeq(text, i, p + Len(old) - 1)>>
                      \o FromImportMatches(text, p + Len(old), old)

RECURSIVE ReplaceMatches(_, _, _, _)
ReplaceMatches(updated_content, matches, old_name, new_name) ==
    IF matches = <<>> THEN updated_content
    ELSE LET old_full == matches[1]
             new_full == StrReplace(old_full, old_name, new_name)
         IN  ReplaceMatches(StrReplace(updated_content, old_full, new_full),
                            Tail(matches), old_name, new_name)

\* cross_file_transformer.py:291-318
RECURSIVE UpdateImportsWithRegex(_, _)
UpdateImportsWithRegex(content, transformations) ==
    IF transformations = <<>> THEN content
    ELSE LET old_name == transformations[1][1]
             new_name == transformations[1][2]
         IN  UpdateImportsWithRegex(
                 ReplaceMatches(content, FromImportMatches(content, 1, old_name),
                                old_name, new_name),
                 Tail(transformations))

\* cross_file_transformer.py:205-289
UpdateImportStatements(file, transformations) ==
    IF ~Parses(file) THEN UpdateImportsWithRegex(FileText(file), transformations)
    ELSE JoinLines([i \in 1..Len(file) |->
             IF file[i].node.type = "ImportFrom"
             THEN UpdateImportLine(file[i].text, file[i].node.names, transformations)
             ELSE file[i].text])

\* cross_file_transformer.py:340-360: the four patterns, for one name
UpdateUsagesOfOne(content, old, new) ==
    IF CountWord(content, old) = 0 THEN content
    ELSE ReSub("word", ReSub("assign", ReSub("attr", ReSub("call", content, old, new),
                                                  old, new), old, new), old, new)

RECURSIVE UpdateUsagesAll(_, _)
UpdateUsagesAll(content, pairs) ==
    IF pairs = <<>> THEN content
    ELSE UpdateUsagesAll(UpdateUsagesOfOne(content, pairs[1][1], pairs[1][2]), Tail(pairs))

\* cross_file_transformer.py:320-369
UpdateSymbolUsages(content, transformations) ==
    UpdateUsagesAll(content, SortedTransformations(transformations))

\* cross_file_transformer.py:391-408: the four patterns, for one name
UpdateDefinitionsOfOne(content, old, new) ==
    ReSub("vardef", ReSub("asyncdef", ReSub("def", ReSub("classdef", content, old, new),
                                                old, new), old, new), old, new)

\* cross_file_transformer.py:371-410
RECURSIVE UpdateSymbolDefinitions(_, _)
UpdateSymbolDefinitions(content, transformations) ==
    IF transformations = <<>> THEN content
    ELSE UpdateSymbolDefinitions(
             UpdateDefinitionsOfOne(content, transformations[1][1], transformations[1][2]),
             Tail(transformations))

\* cross_file_transformer.py:148-203
TransformSingleFile(file, transformations) ==
    UpdateSymbolDefinitions(
        UpdateSymbolUsages(UpdateImportStatements(file, transformations), transformations),
        transformations)

(***************************************************************************)
(* rule_engine.py: the formatting pass and the choice of the rewrite mode. *)
(* Of the formatting rules the model has comma_spacing; the others are     *)
(* taken as not enabled.                                                   *)
(***************************************************************************)
\* rule_engine.py:759-762: re.sub(r',([^ \n])', r', \1', source_code)
RECURSIVE ApplyCommaSpacingFrom(_, _)
ApplyCommaSpacingFrom(source_code, i) ==
    IF i > Len(source_code) THEN <<>>
    ELSE IF /\ source_code[i] = ","
            /\ i < Len(source_code)
            /\ source_code[i + 1] \notin {" ", "\n"}
         THEN <<",", " ", source_code[i + 1]>> \o ApplyCommaSpacingFrom(source_code, i + 2)
         ELSE <<source_code[i]>> \o ApplyCommaSpacingFrom(source_code, i + 1)

\* rule_engine.py:489-504; the master switch is False, True or absent (None)
HasFormattingRulesEnabled(enabled, comma) ==
    IF enabled = "False" THEN FALSE ELSE comma

\* rule_engine.py:677-728: the formatting pass changes the text (it returns a text,
\* not None)
FormattingApplies(source_code, enabled, comma) ==
    /\ enabled # "False"
    /\ comma
    /\ ApplyCommaSpacingFrom(source_code, 1) # source_code

\* rule_engine.py:312-313, 350-354: the text after the formatting pass
FormattedCode(source_code, enabled, comma) ==
    IF FormattingApplies(source_code, enabled, comma)
    THEN ApplyCommaSpacingFrom(source_code, 1)
    ELSE source_code

\* the choice of lines 336-343 lost: the tree mode whatever the switch says
ApplyInTreeMode(file, combined_transformations, enabled) ==
    ApplyTransformations(file, combined_transformations)

\* rule_engine.py:333-345: the text mode only when the master switch is exactly False
ApplyCombinedTransformations(file, combined_transformations, enabled) ==
    IF enabled = "False"
    THEN ApplyTransformationsPreserveFormatting(FileText(file), combined_transformations)
    ELSE ApplyTransformations(file, combined_transformations)


\* rule_engine.py:309-357: transformed_code of a file that loads
TransformedCode(file, combined_transformations, enabled, comma) ==
    IF combined_transformations = <<>>
    THEN FormattedCode(FileText(file), enabled, comma)
    ELSE FormattedCode(ApplyCombinedTransformations(file, combined_transformations, enabled),
                       enabled, comma)

MaxLines == 2

SourceFiles == UNION {[1..n -> LinePool] : n \in 1..MaxLines}

TransformationPool ==
    { <<>>,
      << <<nFoo, nThing>> >>,
      << <<nItem, nEntry>> >>,
      << <<nItem, nEntry>>, <<nItemId, nEntryId>> >> }

\* rule_engine.py:266-374 for one file and its combined transformations
TProcessFile ==
    /\ t_pc = "loaded"
    /\ IF Parses(t_file)
       THEN /\ t_code' = TransformedCode(t_file, t_transformations, t_enabled, t_comma)
            /\ t_pc' = "processed"
       ELSE /\ t_code' = <<>>
            /\ t_pc' = "failed"
    /\ UNCHANGED <<t_file, t_transformations, t_enabled, t_comma>>
    /\ UNCHANGED nonTVars

\* cross_file_transformer.py:148-203 for one file and its transformations
TTransformSingleFile ==
    /\ t_pc = "loaded"
    /\ t_transformations # <<>>
    /\ t_code' = TransformSingleFile(t_file, t_transformations)
    /\ t_pc' = "transformed"
    /\ UNCHANGED <<t_file, t_transformations, t_enabled, t_comma>>
    /\ UNCHANGED nonTVars

\* the writer at rest with nothing on disk but the target
WRest ==
    /\ WIdle
    /\ w_backup = "absent"
    /\ w_out = [k \in 0..(MaxExisting + MaxRuns) |-> "absent"]

TInit ==
    /\ t_file \in SourceFiles
    /\ t_transformations \in TransformationPool
    /\ t_enabled \in {"False", "True", "None"}
    /\ t_comma \in BOOLEAN
    /\ t_pc = "loaded"
    /\ t_code = <<>>
    /\ w_mode = "in_place"
    /\ WRest
    /\ CtlIdle
    /\ EIdle
    /\ NIdle

TNext ==
    \/ TProcessFile
    \/ TTransformSingleFile

SpecText == TInit /\ [][TNext]_vars

(***************************************************************************)
(* One identifier under _convert_naming_convention, converted to a style   *)
(* and the result converted to the same style again.                       *)
(***************************************************************************)
MaxNameLen == 4

\* a lowercase letter, an uppercase letter, a digit and the underscore
NameChars == {"a", "B", "1", "_"}

\* the identifiers of at most MaxNameLen characters: no digit in front
Identifiers ==
    {n \in UNION {[1..k -> NameChars] : k \in 1..MaxNameLen} : n[1] \notin DigitChars}

NamingStyles ==
    {"snake_case", "camelCase", "PascalCase", "UPPER_CASE",
     "_snake_case", "_camelCase", "__snake_case__", "__camelCase__"}

\* rule_engine.py:597: self._convert_naming_convention(element.name, target_convention)
NConvert ==
    /\ n_pc = "loaded"
    /\ n_once' = ConvertNamingConvention(n_name, n_style)
    /\ n_pc' = "once"
    /\ UNCHANGED <<n_name, n_style, n_twice>>
    /\ UNCHANGED <<ctlVars, wVars, tVars, eVars>>

\* the same call on the name the first call returned
NConvertAgain ==
    /\ n_pc = "once"
    /\ n_twice' = ConvertNamingConvention(n_once, n_style)
    /\ n_pc' = "twice"
    /\ UNCHANGED <<n_name, n_style, n_once>>
    /\ UNCHANGED <<ctlVars, wVars, tVars, eVars>>

NInit ==
    /\ n_name \in Identifiers
    /\ n_style \in NamingStyles
    /\ n_pc = "loaded"
    /\ n_once = <<>>
    /\ n_twice = <<>>
    /\ w_mode = "in_place"
    /\ WRest
    /\ CtlIdle
    /\ TIdle
    /\ EIdle

NNext ==
    \/ NConvert
    \/ NConvertAgain

SpecNaming == NInit /\ [][NNext]_vars

(***************************************************************************)
(* The project: its files in the order main.py hands them on.  A file is   *)
(* its path and its lines; file_path in a definition, a usage or a result  *)
(* is the position of the file in the project.                             *)
(***************************************************************************)
SourceFile(path, lines) == [path |-> path, lines |-> lines]

\* len(file_path.parts), up to the parts of the project root
PathParts(path) == 1 + Cardinality({i \in 1..Len(path) : path[i] = "/"})

\* 'test' in str(file_path).lower()
IsTestPath(path) == IsSubstr(<<"t","e","s","t">>, StrLower(path))

sDirectUsage == <<"d","i","r","e","c","t","_","u","s","a","g","e">>
sFunctionCall == <<"f","u","n","c","t","i","o","n","_","c","a","l","l">>
sAttributeAccessOn == <<"a","t","t","r","i","b","u","t","e","_","a","c","c","e","s","s","_","o","n","_">>
sMethodCallOn == <<"m","e","t","h","o","d","_","c","a","l","l","_","o","n","_">>

CodeElement(name, element_type) == [name |-> name, element_type |-> element_type]

\* ast_analyzer.py:78-209, for the statements of the module body
ExtractLineElements(node) ==
    CASE node.type = "ClassDef" -> <<CodeElement(node.name, "class")>>
      [] node.type = "FunctionDef" -> <<CodeElement(node.name, "function")>>
      [] node.type = "Assign" /\ node.target.type = "Name" ->
            <<CodeElement(node.target.id,
                          IF IsUpper(node.target.id) THEN "constant" ELSE "variable")>>
      [] OTHER -> <<>>

RECURSIVE ExtractCodeElements(_)
ExtractCodeElements(lines) ==
    IF lines = <<>> THEN <<>>
    ELSE ExtractLineElements(lines[1].node) \o ExtractCodeElements(Tail(lines))

SymbolDefinition(name, symbol_type, file_path) ==
    [name |-> name, symbol_type |-> symbol_type, file_path |-> file_path]

SymbolUsage(name, file_path, context) ==
    [name |-> name, file_path |-> file_path, context |-> context]

\* global_symbol_tracker.py:125-150: the definitions of one file; none when the
\* file does not parse
FileDefinitions(project, f) ==
    IF ~Parses(project[f].lines) THEN <<>>
    ELSE LET elements == ExtractCodeElements(project[f].lines)
         IN  [i \in 1..Len(elements) |->
                 SymbolDefinition(elements[i].name, elements[i].element_type, f)]

\* the second pass leaving its loop at the first file that does not parse
RECURSIVE DefinitionsFromAborting(_, _)
DefinitionsFromAborting(project, f) ==
    IF f > Len(project) \/ ~Parses(project[f].lines) THEN <<>>
    ELSE FileDefinitions(project, f) \o DefinitionsFromAborting(project, f + 1)

\* global_symbol_tracker.py:88-95: symbol_map.definitions, all names in one list
RECURSIVE DefinitionsFrom(_, _)
DefinitionsFrom(project, f) ==
    IF f > Len(project) THEN <<>>
    ELSE FileDefinitions(project, f) \o DefinitionsFrom(project, f + 1)

Definitions(project) == DefinitionsFrom(project, 1)

\* symbol_map.definitions.get(symbol_name, [])
DefinitionsOf(project, symbol_name) ==
    SelectSeq(Definitions(project), LAMBDA d : d.name = symbol_name)

\* global_symbol_tracker.py:152-196: the names the file imports with from ... import
ImportedNames(project, f) ==
    IF ~Parses(project[f].lines) THEN {}
    ELSE UNION {{project[f].lines[i].node.names[k].name :
                     k \in 1..Len(project[f].lines[i].node.names)} :
                  i \in {j \in 1..Len(project[f].lines) :
                            project[f].lines[j].node.type = "ImportFrom"}}

\* global_symbol_tracker.py:211-270: the usages the visitor records under one node
RECURSIVE NodeUsages(_, _)
NodeUsages(node, f) ==
    CASE node.type = "Name" -> <<SymbolUsage(node.id, f, sDirectUsage)>>
      [] node.type = "Attribute" ->
            (IF node.value.type = "Name"
             THEN <<SymbolUsage(node.attr, f, sAttributeAccessOn \o node.value.id)>>
             ELSE <<>>) \o NodeUsages(node.value, f)
      [] node.type = "Call" ->
            (IF node.func.type = "Name"
             THEN <<SymbolUsage(node.func.id, f, sFunctionCall)>>
             ELSE IF node.func.type = "Attribute" /\ node.func.value.type = "Name"
                  THEN <<SymbolUsage(node.func.attr, f, sMethodCallOn \o node.func.value.id)>>
                  ELSE <<>>) \o NodeUsages(node.func, f)
      [] node.type = "Expr" -> NodeUsages(node.value, f)
      [] node.type = "Assign" ->
            (IF node.target.type = "Name" THEN <<>> ELSE NodeUsages(node.target, f))
                \o NodeUsages(node.value, f)
      [] OTHER -> <<>>

RECURSIVE LinesUsages(_, _)
LinesUsages(lines, f) ==
    IF lines = <<>> THEN <<>>
    ELSE NodeUsages(lines[1].node, f) \o LinesUsages(Tail(lines), f)

\* global_symbol_tracker.py:198-270
FileUsages(project, f) ==
    IF ~Parses(project[f].lines) THEN <<>> ELSE LinesUsages(project[f].lines, f)

RECURSIVE UsagesFrom(_, _)
UsagesFrom(project, f) ==
    IF f > Len(project) THEN <<>>
    ELSE FileUsages(project, f) \o UsagesFrom(project, f + 1)

\* symbol_map.usages.get(symbol_name, [])
UsagesOf(project, symbol_name) ==
    SelectSeq(UsagesFrom(project, 1), LAMBDA u : u.name = symbol_name)

(***************************************************************************)
(* The configuration: enabled_rules is the set of rules that are on,       *)
(* naming_conventions gives each key its convention ("" when it has none), *)
(* formatting_enabled is formatting_rules.enabled ("False", "True", or     *)
(* "None" when absent), comma stands for the comma spacing rule.           *)
(***************************************************************************)
ConfigKey(element_type) ==
    CASE element_type = "variable" -> "variables"
      [] element_type = "function" -> "functions"
      [] element_type = "class" -> "classes"
      [] element_type = "constant" -> "constants"
      [] element_type = "method" -> "functions"
      [] element_type = "private_method" -> "private_methods"
      [] element_type = "dunder_method" -> "dunder_methods"
      [] OTHER -> ""

RuleName(element_type) ==
    CASE element_type = "variable" -> "variable_naming"
      [] element_type = "function" -> "function_naming"
      [] element_type = "class" -> "class_naming"
      [] element_type = "constant" -> "constant_naming"
      [] element_type = "method" -> "function_naming"
      [] element_type = "private_method" -> "private_method_naming"
      [] element_type = "dunder_method" -> "dunder_method_naming"
      [] OTHER -> ""

\* rule_engine.py:552-597; None is the empty name
GetTransformedName(config, element) ==
    IF ConfigKey(element.element_type) = "" THEN NoName
    ELSE IF RuleName(element.element_type) \notin config.enabled_rules THEN NoName
    ELSE IF config.naming_conventions[ConfigKey(element.element_type)] = "" THEN NoName
    ELSE ConvertNamingConvention(element.name,
                                 config.naming_conventions[ConfigKey(element.element_type)])

\* rule_engine.py:477-487
HasNamingRulesEnabled(config) ==
    config.enabled_rules \cap {"variable_naming", "function_naming", "class_naming",
                               "constant_naming", "private_method_naming",
                               "dunder_method_naming"} # {}


(***************************************************************************)
(* The plan: rule_engine.py:143-253.                                       *)
(***************************************************************************)
\* sorted(defs, key=lambda d: len(d.file_path.parts))[0]: the first of the shallowest
ShallowestFirst(project, defs) ==
    defs[CHOOSE i \in 1..Len(defs) :
            /\ \A j \in 1..Len(defs) :
                  PathParts(project[defs[i].file_path].path)
                      <= PathParts(project[defs[j].file_path].path)
            /\ \A j \in 1..(i - 1) :
                  PathParts(project[defs[j].file_path].path)
                      > PathParts(project[defs[i].file_path].path)]

\* rule_engine.py:186-209
GetPrimaryDefinition(project, definitions) ==
    IF Len(definitions) = 1 THEN definitions[1]
    ELSE LET non_test_defs ==
                 SelectSeq(definitions, LAMBDA d : ~IsTestPath(project[d.file_path].path))
         IN  IF non_test_defs # <<>> THEN ShallowestFirst(project, non_test_defs)
             ELSE definitions[1]

\* rule_engine.py:211-235
GetAffectedFiles(project, symbol_name) ==
    {d.file_path : d \in SeqToSet(DefinitionsOf(project, symbol_name))}
        \cup {u.file_path : u \in SeqToSet(UsagesOf(project, symbol_name))}
        \cup {f \in 1..Len(project) : symbol_name \in ImportedNames(project, f)}

GlobalTransformation(old_name, new_name, symbol_type, definition_file, affected_files) ==
    [old_name |-> old_name, new_name |-> new_name, symbol_type |-> symbol_type,
     definition_file |-> definition_file, affected_files |-> affected_files]

\* the keys of symbol_map.definitions, in the order they were first inserted
RECURSIVE SymbolNames(_, _)
SymbolNames(defs, seen) ==
    IF defs = <<>> THEN <<>>
    ELSE IF defs[1].name \in seen THEN SymbolNames(Tail(defs), seen)
    ELSE <<defs[1].name>> \o SymbolNames(Tail(defs), seen \cup {defs[1].name})

\* rule_engine.py:157-181: the body of the loop for one symbol
PlanEntry(project, config, symbol_name) ==
    LET primary_def == GetPrimaryDefinition(project, DefinitionsOf(project, symbol_name))
        new_name == GetTransformedName(config,
                        CodeElement(primary_def.name, primary_def.symbol_type))
    IN  IF new_name # NoName /\ new_name # symbol_name
        THEN <<GlobalTransformation(symbol_name, new_name, primary_def.symbol_type,
                                    primary_def.file_path,
                                    GetAffectedFiles(project, symbol_name))>>
        ELSE <<>>

RECURSIVE PlanFor(_, _, _)
PlanFor(project, config, names) ==
    IF names = <<>> THEN <<>>
    ELSE PlanEntry(project, config, names[1]) \o PlanFor(project, config, Tail(names))

\* rule_engine.py:143-184
GenerateGlobalTransformations(project, config) ==
    PlanFor(project, config, SymbolNames(Definitions(project), {}))

\* d[key] = value on a dict kept as a sequence of pairs
DictSet(d, key, value) ==
    IF key \in OldNames(d)
    THEN [i \in 1..Len(d) |-> IF d[i][1] = key THEN <<key, value>> ELSE d[i]]
    ELSE Append(d, <<key, value>>)

\* {**d, **e}
RECURSIVE DictUpdate(_, _)
DictUpdate(d, e) ==
    IF e = <<>> THEN d ELSE DictUpdate(DictSet(d, e[1][1], e[1][2]), Tail(e))

\* rule_engine.py:237-253
RECURSIVE GetTransformationsForFile(_, _)
GetTransformationsForFile(plan, file_path) ==
    IF plan = <<>> THEN <<>>
    ELSE LET rest == GetTransformationsForFile(SubSeq(plan, 1, Len(plan) - 1), file_path)
             g == plan[Len(plan)]
         IN  IF file_path \in g.affected_files
             THEN DictSet(rest, g.old_name, g.new_name)
             ELSE rest

(***************************************************************************)
(* One file: rule_engine.py:255-374.                                       *)
(***************************************************************************)
\* rule_engine.py:279-284: local_transformations
RECURSIVE LocalTransformations(_, _)
LocalTransformations(config, elements) ==
    IF elements = <<>> THEN <<>>
    ELSE LET rest == LocalTransformations(config, SubSeq(elements, 1, Len(elements) - 1))
             element == elements[Len(elements)]
             new_name == GetTransformedName(config, element)
         IN  IF new_name # NoName /\ new_name # element.name
             THEN DictSet(rest, element.name, new_name)
             ELSE rest

\* rule_engine.py:279-284: local_changes
RECURSIVE LocalChanges(_, _)
LocalChanges(config, elements) ==
    IF elements = <<>> THEN <<>>
    ELSE LET new_name == GetTransformedName(config, elements[1])
         IN  (IF new_name # NoName /\ new_name # elements[1].name
              THEN <<RenameChange(elements[1].element_type, elements[1].name,
                                  new_name, FALSE)>>
              ELSE <<>>) \o LocalChanges(config, Tail(elements))

\* rule_engine.py:384-389: the loop over the usages of the name
RECURSIVE SymbolTypeFromUsages(_, _)
SymbolTypeFromUsages(usages, file_path) ==
    IF usages = <<>> THEN "symbol"
    ELSE IF usages[1].file_path = file_path
            /\ IsSubstr(sClass, StrLower(usages[1].context))
         THEN "class"
    ELSE IF usages[1].file_path = file_path
            /\ IsSubstr(sFunction, StrLower(usages[1].context))
         THEN "function"
    ELSE SymbolTypeFromUsages(Tail(usages), file_path)

\* rule_engine.py:376-391
GetSymbolTypeForFile(project, symbol_name, file_path) ==
    LET here == SelectSeq(DefinitionsOf(project, symbol_name),
                          LAMBDA d : d.file_path = file_path)
    IN  IF here # <<>> THEN here[1].symbol_type
        ELSE SymbolTypeFromUsages(UsagesOf(project, symbol_name), file_path)

\* rule_engine.py:304-307
CrossFileChanges(project, cross_file_transformations, file_path) ==
    [i \in 1..Len(cross_file_transformations) |->
        RenameChange(GetSymbolTypeForFile(project, cross_file_transformations[i][1], file_path),
                     cross_file_transformations[i][1],
                     cross_file_transformations[i][2], TRUE)]

\* the merge with its operands exchanged: {**cross_file_transformations, **local_transformations}
CombinedTransformationsLocalLast(local_transformations, cross_file_transformations) ==
    DictUpdate(cross_file_transformations, local_transformations)

\* rule_engine.py:286-288: {**local_transformations, **cross_file_transformations}
CombinedTransformations(local_transformations, cross_file_transformations) ==
    DictUpdate(local_transformations, cross_file_transformations)

\* rule_engine.py:276-284, 288: the combined transformations of the file
CombinedForFile(project, plan, config, file_path) ==
    CombinedTransformations(
        IF HasNamingRulesEnabled(config)
        THEN LocalTransformations(config, ExtractCodeElements(project[file_path].lines))
        ELSE <<>>,
        GetTransformationsForFile(plan, file_path))

\* rule_engine.py:290-307: all_changes
AllChanges(project, plan, config, file_path) ==
    LET cross_file_transformations == GetTransformationsForFile(plan, file_path)
        local_changes ==
            IF HasNamingRulesEnabled(config)
            THEN LocalChanges(config, ExtractCodeElements(project[file_path].lines))
            ELSE <<>>
    IN  SelectSeq(local_changes, LAMBDA c : c.old \notin OldNames(cross_file_transformations))
            \o CrossFileChanges(project, cross_file_transformations, file_path)

\* rule_engine.py:255-374.  The codes of the result are texts; the result of a
\* file that does not load has the empty text for both, as None is never read.
ProcessFileWithCombinedContext(project, plan, config, file_path) ==
    LET lines == project[file_path].lines
        combined_transformations == CombinedForFile(project, plan, config, file_path)
        all_changes == AllChanges(project, plan, config, file_path)
        formatted ==
            FormattingApplies(
                IF combined_transformations = <<>> THEN FileText(lines)
                ELSE ApplyCombinedTransformations(lines, combined_transformations,
                                                  config.formatting_enabled),
                config.formatting_enabled, config.comma)
    IN  IF ~Parses(lines) THEN ProcessingResult(file_path, FALSE, <<>>, <<>>, <<>>, "error")
        ELSE ProcessingResult(file_path, TRUE, FileText(lines),
                 TransformedCode(lines, combined_transformations,
                                 config.formatting_enabled, config.comma),
                 IF combined_transformations = <<>>
                 THEN (IF formatted THEN <<FormatChange>> ELSE <<>>)
                 ELSE all_changes \o (IF formatted THEN <<FormatChange>> ELSE <<>>),
                 "None")

\* success of the project result, with any() for all()
ProjectSuccessAny(file_results) ==
    \E i \in 1..Len(file_results) : file_results[i].success

\* rule_engine.py:106: success = all(result.success for result in file_results)
ProjectSuccess(file_results) ==
    \A i \in 1..Len(file_results) : file_results[i].success

\* rule_engine.py:66-122: file_results
ProcessProject(project, config) ==
    LET plan == GenerateGlobalTransformations(project, config)
    IN  [f \in 1..Len(project) |-> ProcessFileWithCombinedContext(project, plan, config, f)]


(***************************************************************************)
(* The text of a file read back after it was written: the lines of the     *)
(* transformed text, each with what the parser yields for it.  The tree    *)
(* mode regenerates a line per statement; the text mode replaces the       *)
(* identifiers where they stand, so that every identifier of a statement   *)
(* is the one the substitutions leave.                                     *)
(***************************************************************************)
\* the substitutions of ast_analyzer.py:318-327, in their order, on one identifier
RECURSIVE SubstitutedName(_, _)
SubstitutedName(id, pairs) ==
    IF pairs = <<>> THEN id
    ELSE SubstitutedName(IF id = pairs[1][1] THEN pairs[1][2] ELSE id, Tail(pairs))

RECURSIVE SubstitutedNode(_, _)
SubstitutedNode(node, pairs) ==
    CASE node.type = "Name" -> Name(SubstitutedName(node.id, pairs))
      [] node.type = "Attribute" ->
            Attribute(SubstitutedNode(node.value, pairs), SubstitutedName(node.attr, pairs))
      [] node.type = "Call" -> Call(SubstitutedNode(node.func, pairs))
      [] node.type = "Expr" -> Expr(SubstitutedNode(node.value, pairs))
      [] node.type = "Assign" ->
            Assign(SubstitutedNode(node.target, pairs), SubstitutedNode(node.value, pairs))
      [] node.type = "FunctionDef" -> FunctionDef(SubstitutedName(node.name, pairs))
      [] node.type = "ClassDef" -> ClassDef(SubstitutedName(node.name, pairs))
      [] node.type = "ImportFrom" ->
            ImportFrom(SubstitutedName(node.module, pairs),
                       [k \in 1..Len(node.names) |->
                           alias(SubstitutedName(node.names[k].name, pairs),
                                 IF node.names[k].asname = NoName THEN NoName
                                 ELSE SubstitutedName(node.names[k].asname, pairs))])
      [] OTHER -> node

\* the text of a statement as the generator writes it, without the final newline
StatementText(node) == SubSeq(ToSource(node), 1, Len(ToSource(node)) - 1)

RECURSIVE WrittenLines(_, _, _, _)
WrittenLines(lines, combined_transformations, enabled, comma) ==
    IF lines = <<>> THEN <<>>
    ELSE LET l == lines[1]
             rest == WrittenLines(Tail(lines), combined_transformations, enabled, comma)
         IN  IF combined_transformations = <<>>
             THEN <<Line(FormattedCode(l.text, enabled, comma), l.node)>> \o rest
             ELSE IF enabled = "False"
             THEN <<Line(SubstituteAll(l.text, SortedTransformations(combined_transformations)),
                         SubstitutedNode(l.node,
                                         SortedTransformations(combined_transformations)))>>
                      \o rest
             ELSE IF l.node.type = "none" THEN rest
             ELSE <<Line(FormattedCode(StatementText(Visit(l.node, combined_transformations)),
                                       enabled, comma),
                         Visit(l.node, combined_transformations))>> \o rest

(***************************************************************************)
(* The projects and configurations the runs start from.                    *)
(***************************************************************************)
MaxFileLines == 2
MaxProjectLines == 3
MaxProjectRuns == 2

nPrivateFoo == <<"_","f","o","o">>
nFOO == <<"F","O","O">>
nFooBar == <<"f","o","o","B","a","r">>

\* the statements a file of a project is made of, in the order they may appear
ProjectLines ==
    << Line(kwClass \o SP \o nFoo \o <<":", " ">> \o kwPass, ClassDef(nFoo)),
       Line(kwDef \o SP \o nFoo \o <<"(", ")", ":", " ">> \o kwPass, FunctionDef(nFoo)),
       Line(kwDef \o SP \o nPrivateFoo \o <<"(", ")", ":", " ">> \o kwPass,
            FunctionDef(nPrivateFoo)),
       Line(kwFrom \o SP \o nMod \o SP \o kwImport \o SP \o nFoo,
            ImportFrom(nMod, <<alias(nFoo, NoName)>>)),
       Line(nFooBar \o <<" ", "=", " ", "1", ",", "2">>, Assign(Name(nFooBar), Constant(<<"1", ",", " ", "2">>))),
       Line(nFoo \o <<"(", ")">>, Expr(Call(Name(nFoo)))),
       Line(nFOO \o <<" ", "=", " ", "1">>, Assign(Name(nFOO), Constant(<<"1">>))),
       Line(kwDef \o SP \o nFOO \o <<"(", ")", ":", " ">> \o kwPass, FunctionDef(nFOO)),
       Line(<<")">>, ParseError) >>

\* the lines of ProjectLines at the positions of S, in their order
RECURSIVE LinesAt(_, _)
LinesAt(S, i) ==
    IF i > Len(ProjectLines) THEN <<>>
    ELSE (IF i \in S THEN <<ProjectLines[i]>> ELSE <<>>) \o LinesAt(S, i + 1)

ProjectFileBodies ==
    {LinesAt(S, 1) : S \in {T \in SUBSET (1..Len(ProjectLines)) :
                              Cardinality(T) \in 1..MaxFileLines}}

pathA == <<"a",".","p","y">>
pathPkgB == <<"p","k","g","/","b",".","p","y">>
pathTestsA == <<"t","e","s","t","s","/","a",".","p","y">>
pathB == <<"b",".","p","y">>
pathTestB == <<"t","e","s","t","_","b",".","p","y">>

PathLists == { <<pathA, pathPkgB>>, <<pathTestsA, pathB>>, <<pathTestsA, pathTestB>> }

Projects ==
    UNION { { <<SourceFile(ps[1], b1), SourceFile(ps[2], b2)>> :
                  ps \in PathLists,
                  b2 \in {b \in ProjectFileBodies : Len(b1) + Len(b) <= MaxProjectLines} } :
            b1 \in ProjectFileBodies }

Config(enabled_rules, functions, classes, variables, formatting_enabled, comma) ==
    [enabled_rules |-> enabled_rules,
     naming_conventions |->
         [variables |-> variables, functions |-> functions, classes |-> classes,
          constants |-> "", private_methods |-> "", dunder_methods |-> ""],
     formatting_enabled |-> formatting_enabled,
     comma |-> comma]

Configs ==
    { Config({"function_naming", "class_naming"}, "snake_case", "PascalCase", "", "False", FALSE),
      Config({"function_naming", "class_naming"}, "snake_case", "PascalCase", "", "None", FALSE),
      Config({"function_naming"}, "camelCase", "PascalCase", "", "False", FALSE),
      Config({"function_naming", "variable_naming"}, "camelCase", "", "snake_case", "None", TRUE),
      Config({}, "snake_case", "PascalCase", "snake_case", "True", TRUE),
      Config({"function_naming", "class_naming"}, "snake_case", "UPPER_CASE", "", "False", FALSE) }


(***************************************************************************)
(* A run of the program in cross-file mode (main.py): the analysis and     *)
(* process_project, then the controller on the results.  The controller    *)
(* keeps the texts as classes: "orig" what the file holds when the run     *)
(* starts, "new" the transformed text of the run.                          *)
(***************************************************************************)
ResultForController(r) ==
    ProcessingResult(r.file_path, r.success,
                     IF r.success THEN "orig" ELSE "",
                     IF ~r.success THEN "none"
                     ELSE IF r.transformed_code = r.original_code THEN "orig" ELSE "new",
                     r.changes_made, r.error_message)

ResultsForController(file_results) ==
    [f \in 1..MaxFiles |->
        IF f <= Len(file_results) THEN ResultForController(file_results[f])
        ELSE ProcessingResult(f, TRUE, "orig", "orig", <<>>, "None")]

\* the run without the test of project_result.success: the controller is called on
\* the results whatever they are
EProcessProjectUngated ==
    /\ e_pc = "loaded"
    /\ e_plan' = GenerateGlobalTransformations(e_project, e_config)
    /\ e_results' = ProcessProject(e_project, e_config)
    /\ e_pc' = "processed"
    /\ results' = ResultsForController(e_results')
    /\ pc' = "idle"
    /\ UNCHANGED <<e_project, e_config, e_run, e_plan_applied>>
    /\ UNCHANGED <<output_mode, show_gui, apply_to_all_definitions, skip_all_definitions,
                   quit_requested, groups, gi, ui, output_results, disk, newfiles,
                   presented, written, faults>>
    /\ UNCHANGED <<wVars, tVars, nVars>>

\* main.py:113-175: analyze_project and process_project; the controller is called
\* on the results unless the result of some file is a failure
EProcessProject ==
    /\ e_pc = "loaded"
    /\ e_plan' = GenerateGlobalTransformations(e_project, e_config)
    /\ e_results' = ProcessProject(e_project, e_config)
    /\ e_pc' = "processed"
    /\ IF ProjectSuccess(e_results')
       THEN /\ results' = ResultsForController(e_results')
            /\ pc' = "idle"
       ELSE /\ results' = results
            /\ pc' = "done"
    /\ UNCHANGED <<e_project, e_config, e_run, e_plan_applied>>
    /\ UNCHANGED <<output_mode, show_gui, apply_to_all_definitions, skip_all_definitions,
                   quit_requested, groups, gi, ui, output_results, disk, newfiles,
                   presented, written, faults>>
    /\ UNCHANGED <<wVars, tVars, nVars>>

\* the file as the next run reads it
FileOnDisk(f) ==
    IF disk[f] = "new"
    THEN SourceFile(e_project[f].path,
                    WrittenLines(e_project[f].lines,
                                 CombinedForFile(e_project, e_plan, e_config, f),
                                 e_config.formatting_enabled, e_config.comma))
    ELSE e_project[f]

\* the program is started again on the project, with the same configuration,
\* once a run has ended
ERunAgain ==
    /\ e_pc = "processed"
    /\ pc = "done"
    /\ e_run < MaxProjectRuns
    /\ e_project' = [f \in 1..Len(e_project) |-> FileOnDisk(f)]
    /\ e_run' = e_run + 1
    /\ e_plan_applied' =
           /\ \A f \in 1..Len(e_project) : e_results[f].success
           /\ \A f \in 1..Len(e_project) :
                  results[f].transformed_code = "new" => disk[f] = "new"
    /\ e_pc' = "loaded"
    /\ e_plan' = <<>>
    /\ e_results' = <<>>
    /\ results' = [f \in 1..MaxFiles |-> ProcessingResult(f, TRUE, "orig", "orig", <<>>, "None")]
    /\ pc' = "analysis"
    /\ apply_to_all_definitions' = FALSE
    /\ skip_all_definitions' = FALSE
    /\ quit_requested' = FALSE
    /\ groups' = <<>>
    /\ gi' = 1
    /\ ui' = 1
    /\ output_results' = <<>>
    /\ disk' = [f \in 1..MaxFiles |-> "orig"]
    /\ presented' = <<>>
    /\ written' = <<>>
    /\ UNCHANGED <<e_config, output_mode, show_gui, newfiles, faults>>
    /\ UNCHANGED <<wVars, tVars, nVars>>

PInit ==
    /\ e_project \in Projects
    /\ e_config \in Configs
    /\ e_pc = "loaded"
    /\ e_plan = <<>>
    /\ e_results = <<>>
    /\ e_run = 1
    /\ e_plan_applied = FALSE
    /\ results = [f \in 1..MaxFiles |-> ProcessingResult(f, TRUE, "orig", "orig", <<>>, "None")]
    /\ output_mode = "in_place"
    /\ show_gui = TRUE
    /\ apply_to_all_definitions = FALSE
    /\ skip_all_definitions = FALSE
    /\ quit_requested = FALSE
    /\ pc = "analysis"
    /\ groups = <<>>
    /\ gi = 1
    /\ ui = 1
    /\ output_results = <<>>
    /\ disk = [f \in 1..MaxFiles |-> "orig"]
    /\ newfiles = [f \in 1..MaxFiles |-> {}]
    /\ presented = <<>>
    /\ written = <<>>
    /\ faults = MaxFaults
    /\ w_mode = output_mode
    /\ WRest
    /\ TIdle
    /\ NIdle

PNext ==
    \/ EProcessProject
    \/ Start
    \/ Present
    \/ Decide
    \/ ProcessDefinitionByFlag
    \/ AutoApplyUsage
    \/ Finish
    \/ ERunAgain

SpecProject == PInit /\ [][PNext]_vars


Init ==
    /\ CtlInit
    /\ w_mode = output_mode
    /\ WRest
    /\ TIdle
    /\ EIdle
    /\ NIdle

Next ==
    \/ Start
    \/ Present
    \/ Decide
    \/ ProcessDefinitionByFlag
    \/ AutoApplyUsage
    \/ Finish

Spec == Init /\ [][Next]_vars

(***************************************************************************)
(* The apply phase with its scheduling: process_cross_file_results is one  *)
(* thread that takes its next step whenever it has one (every write        *)
(* returns), and the confirmation channel answers every request with a     *)
(* valid decision.  Invalid console input (output_manager.py:345-346) asks *)
(* again without a change of state: it is a stuttering step at "confirm".  *)
(***************************************************************************)
ControllerStep ==
    \/ Start
    \/ Present
    \/ ProcessDefinitionByFlag
    \/ AutoApplyUsage
    \/ Finish

SpecAnswered == Init /\ [][Next]_vars /\ WF_vars(ControllerStep) /\ WF_vars(Decide)

(***************************************************************************)
(* Helpers of the controller's properties.                                 *)
(***************************************************************************)
GroupFiles(g) ==
    {g.definition_file.file_path} \cup {g.usage_files[j].file_path : j \in 1..Len(g.usage_files)}

UsageFiles(g) == {g.usage_files[j].file_path : j \in 1..Len(g.usage_files)}

\* the loop has finished with group j
Completed(j) == j \in 1..Len(groups) /\ (j < gi \/ pc = "done")

\* the definition file of group j was written (applied, and the write succeeded)
Applied(j) ==
    \E i \in 1..Len(output_results) :
        /\ output_results[i].file_path = groups[j].definition_file.file_path
        /\ output_results[i].is_definition_file
        /\ output_results[i].success /\ ~output_results[i].user_skipped

\* the confirmation of group j's definition file returned Quit
QuitAt(j) ==
    /\ j \in 1..Len(groups) /\ pc = "done" /\ gi = j
    /\ output_results # <<>>
    /\ output_results[Len(output_results)] = QuitResult(groups[j].definition_file)

\* the transformed text of source file f is where the output mode puts it
HoldsTransformed(f) ==
    IF output_mode = "in_place" THEN disk[f] = "new"
    ELSE \E n \in newfiles[f] : n.content = "new"

\* a result of a write of f, by the cascade, is recorded
CascadeResult(f) ==
    \E i \in 1..Len(output_results) :
        /\ output_results[i].file_path = f
        /\ ~output_results[i].is_definition_file
        /\ output_results[i].auto_applied \/ output_results[i].error_message = "write error"

WriteFailed(f) ==
    \E i \in 1..Len(output_results) :
        output_results[i].file_path = f /\ output_results[i].error_message = "write error"

(***************************************************************************)
(* C1.  Quit semantics, in_place mode: when the confirmation of group k's  *)
(* definition file returns Quit, every file of group k and of the later    *)
(* groups has its original content when the call returns, and the files    *)
(* written for the earlier groups keep their transformed content.  Stated  *)
(* as the claim states it; the code violates it.                           *)
(***************************************************************************)
C1_QuitLeavesLaterGroupsOriginal ==
    \A k \in 1..Len(groups) :
        (output_mode = "in_place" /\ QuitAt(k)) =>
            /\ \A j \in k..Len(groups) : \A f \in GroupFiles(groups[j]) : disk[f] = "orig"
            /\ \A i \in 1..Len(output_results) :
                   (output_results[i].success /\ ~output_results[i].user_skipped)
                       => disk[output_results[i].file_path] = "new"

(***************************************************************************)
(* C2.  Cascade.  As the claim states it: once the loop is done with a     *)
(* group whose definition file was written, every usage file of the group  *)
(* holds its transformed text, and none of them was handed to the          *)
(* confirmation channel.  A usage file whose write raises refutes it.      *)
(***************************************************************************)
C2_CascadeWritesEveryUsage ==
    \A j \in 1..Len(groups) :
        (Completed(j) /\ Applied(j)) =>
            \A f \in UsageFiles(groups[j]) :
                /\ HoldsTransformed(f)
                /\ f \notin SeqToSet(presented)

(***************************************************************************)
(* C2 as amended: once the loop is done with a group whose definition file *)
(* was written (so before the next group is presented), a write of every   *)
(* usage file of the group has been made and recorded, without any         *)
(* confirmation for it, and the usage file holds its transformed text      *)
(* unless a write of that file raised.                                     *)
(***************************************************************************)
C2_CascadeAttemptsEveryUsage ==
    \A j \in 1..Len(groups) :
        (Completed(j) /\ Applied(j)) =>
            \A f \in UsageFiles(groups[j]) :
                /\ CascadeResult(f)
                /\ f \in SeqToSet(written)
                /\ f \notin SeqToSet(presented)
                /\ ~WriteFailed(f) => HoldsTransformed(f)

\* a group with a usage file was applied, the cascade has run, the next group is due
C2_Witness ==
    \E j \in 1..Len(groups) :
        /\ Completed(j) /\ Applied(j) /\ pc = "loop" /\ gi <= Len(groups)
        /\ UsageFiles(groups[j]) # {}
        /\ \A f \in UsageFiles(groups[j]) : HoldsTransformed(f)


\* the groups in which file f is the definition file, and those in which it is a usage file
OwnerGroups(f) == {j \in 1..Len(groups) : groups[j].definition_file.file_path = f}

MemberGroups(f) == {j \in 1..Len(groups) : f \in UsageFiles(groups[j])}

(***************************************************************************)
(* C12.  Group membership: after the grouping, every successful result     *)
(* with actual changes is in exactly one group, as its definition file or  *)
(* as one of its usage files; no file is both, and no file is in two       *)
(* groups.  Stated as the claim states it; a usage file whose changes      *)
(* mention the symbols of two definition files is put in both groups.      *)
(***************************************************************************)
C12_EveryChangedFileInExactlyOneGroup ==
    pc # "idle" =>
        \A f \in 1..Len(results) :
            (results[f].success /\ HasActualChanges(results[f])) =>
                Cardinality(OwnerGroups(f)) + Cardinality(MemberGroups(f)) = 1

(***************************************************************************)
(* C13.  Quit through any confirmation surface: every step in which the    *)
(* user answers Quit, in the GUI diff viewer or at the console prompt,     *)
(* sets quit_requested and records the USER_QUIT result, and once          *)
(* quit_requested is set no step presents a group or writes a file.        *)
(* Stated as the claim states it; a Quit given in the GUI comes back as    *)
(* (False, apply_to_all), which the controller reads as Skip.              *)
(***************************************************************************)
C13_QuitReachesControllerAsQuit ==
    [][/\ \A all \in BOOLEAN, gui_raises \in BOOLEAN :
              DecideWith("quit", all, gui_raises) =>
                  /\ quit_requested'
                  /\ output_results' = Append(output_results, QuitResult(groups[gi].definition_file))
       /\ quit_requested => (presented' = presented /\ written' = written)]_vars

\* the sibling output paths that exist: 0 is <stem><suffix><ext>, k is <stem><suffix>_<k><ext>
ExistingOutputs == {k \in DOMAIN w_out : w_out[k] # "absent"}

(***************************************************************************)
(* C14.  New-file output mode.  No step of a call in new_files mode        *)
(* changes the original file or its backup path; a step changes at most    *)
(* the path the call has chosen, which did not exist when the call opened  *)
(* it; and the path chosen is <stem><suffix><ext> when that does not       *)
(* exist, else <stem><suffix>_<k><ext> for the smallest k >= 1 that does   *)
(* not exist.                                                              *)
(***************************************************************************)
C14_NewFileModeNeverOverwrites ==
    [][w_mode = "new_files" =>
          /\ w_target' = w_target
          /\ w_backup' = w_backup
          /\ \A k \in DOMAIN w_out :
                 w_out'[k] # w_out[k] =>
                     /\ k = w_newpath
                     /\ \/ w_pc = "nf_open" /\ w_out[k] = "absent"
                        \/ w_pc = "nf_write" /\ w_out[k] = "partial"
          /\ w_pc' = "nf_open" =>
                 /\ w_newpath' \notin ExistingOutputs
                 /\ w_newpath' # 0 => \A j \in 0..(w_newpath' - 1) : j \in ExistingOutputs]_vars

\* a call in new_files mode has returned after writing a numbered path, the unnumbered
\* path and the original holding what they held
C14_Witness ==
    /\ w_mode = "new_files" /\ w_pc = "returned"
    /\ w_newpath >= 1 /\ w_out[w_newpath] = "new"
    /\ w_out[0] = "old" /\ w_target = "orig"

(***************************************************************************)
(* C15.  Failure isolation in process_project.  When process_project has   *)
(* returned: there is one result for every file of the list, in its order; *)
(* the result of a file whose processing failed (it does not parse) has    *)
(* success false, an error message and no transformed text; every other    *)
(* file was processed, its result a success holding the text read from the *)
(* file and a transformed text; and the project result is a success only   *)
(* if no file failed.                                                      *)
(***************************************************************************)
C15_FailureIsolatedPerFile ==
    e_pc = "processed" =>
        /\ Len(e_results) = Len(e_project)
        /\ \A f \in 1..Len(e_project) :
               /\ e_results[f].file_path = f
               /\ IF Parses(e_project[f].lines)
                  THEN /\ e_results[f].success
                       /\ e_results[f].error_message = "None"
                       /\ e_results[f].original_code = FileText(e_project[f].lines)
                       /\ e_results[f].transformed_code # <<>>
                  ELSE /\ ~e_results[f].success
                       /\ e_results[f].error_message # "None"
                       /\ e_results[f].transformed_code = <<>>
                       /\ e_results[f].changes_made = <<>>
        /\ (\E f \in 1..Len(e_project) : ~Parses(e_project[f].lines))
               => ~ProjectSuccess(e_results)

\* one file of the project failed, another was processed and its text changed
C15_Witness ==
    /\ e_pc = "processed"
    /\ \E f, g \in 1..Len(e_project) :
           /\ ~Parses(e_project[f].lines) /\ ~e_results[f].success
           /\ e_results[g].success /\ e_results[g].changes_made # <<>>
           /\ e_results[g].transformed_code # e_results[g].original_code

(***************************************************************************)
(* C16.  Fault isolation of analyze_project.  In the symbol map built for  *)
(* the project, a file that does not parse has no definition, no imported  *)
(* name and no usage, and every other file has all of its records: a       *)
(* definition for each of its elements, its imported names, and a usage    *)
(* for each use the visitor finds in it.                                   *)
(***************************************************************************)
C16_UnparsableFileContributesNothing ==
    e_pc = "processed" =>
        LET definitions == Definitions(e_project)
            usages == UsagesFrom(e_project, 1)
        IN  \A f \in 1..Len(e_project) :
                IF Parses(e_project[f].lines)
                THEN /\ \A e \in SeqToSet(ExtractCodeElements(e_project[f].lines)) :
                            SymbolDefinition(e.name, e.element_type, f) \in SeqToSet(definitions)
                     /\ \A u \in SeqToSet(LinesUsages(e_project[f].lines, f)) :
                            u \in SeqToSet(usages)
                     /\ \A i \in 1..Len(e_project[f].lines) :
                            e_project[f].lines[i].node.type = "ImportFrom" =>
                                \A k \in 1..Len(e_project[f].lines[i].node.names) :
                                    e_project[f].lines[i].node.names[k].name
                                        \in ImportedNames(e_project, f)
                ELSE /\ \A d \in SeqToSet(definitions) : d.file_path # f
                     /\ \A u \in SeqToSet(usages) : u.file_path # f
                     /\ ImportedNames(e_project, f) = {}

\* the first file does not parse, the second one has a definition and a usage in the map
C16_Witness ==
    /\ e_pc = "processed"
    /\ ~Parses(e_project[1].lines)
    /\ \E d \in SeqToSet(Definitions(e_project)) : d.file_path = 2
    /\ \E u \in SeqToSet(UsagesFrom(e_project, 1)) : u.file_path = 2

(***************************************************************************)
(* C17.  Confirmation-channel failure.  In every step in which the GUI     *)
(* call raises, the decision is the console's answer for the same file:    *)
(* one result is recorded, for the file that was presented; nothing is     *)
(* presented again; the apply-all and skip-all flags keep their values and *)
(* quit_requested is set by a console answer Quit only; a file is written  *)
(* only on the console answer Apply, and then it is that file; and the     *)
(* loop goes on unless the console answer was Quit.                        *)
(***************************************************************************)
C17_GuiFailureFallsBackToConsole ==
    [][\A choice \in {"apply", "skip", "quit"}, all \in BOOLEAN :
          (show_gui /\ DecideWith(choice, all, TRUE)) =>
              LET file == groups[gi].definition_file.file_path
              IN  /\ apply_to_all_definitions' = apply_to_all_definitions
                  /\ skip_all_definitions' = skip_all_definitions
                  /\ quit_requested' = (quit_requested \/ choice = "quit")
                  /\ presented' = presented
                  /\ Len(output_results') = Len(output_results) + 1
                  /\ output_results'[Len(output_results')].file_path = file
                  /\ output_results'[Len(output_results')].error_message
                         = IF choice = "quit" THEN "USER_QUIT"
                           ELSE IF choice = "apply" /\ faults' # faults THEN "write error"
                           ELSE "None"
                  /\ IF choice = "apply"
                     THEN written' = Append(written, file)
                     ELSE written' = written /\ disk' = disk /\ newfiles' = newfiles
                  /\ choice # "quit" => pc' \in {"loop", "usages"}]_vars

\* with the GUI on, a console answer was given after the GUI call raised: the run has
\* ended on the console's Quit, which the GUI itself never reports
C17_Witness ==
    /\ show_gui /\ quit_requested /\ pc = "done"
    /\ ~apply_to_all_definitions /\ ~skip_all_definitions
    /\ presented # <<>>
    /\ output_results[Len(output_results)].error_message = "USER_QUIT"

(***************************************************************************)
(* C18.  Idempotence of the naming conversions: for each of the eight      *)
(* styles and every identifier, converting the result of a conversion to   *)
(* the same style again returns it unchanged.  Stated as the claim states  *)
(* it; the conversions of names with underscores at their ends refute it.  *)
(***************************************************************************)
C18_ConversionIdempotent ==
    n_pc = "twice" => n_twice = n_once

\* the group whose definition file was the last one handed to the confirmation channel
LastPresentedGroup ==
    CHOOSE k \in 1..Len(groups) :
        groups[k].definition_file.file_path = presented[Len(presented)]

\* a skipped result of group j's definition file is recorded
Skipped(j) ==
    \E i \in 1..Len(output_results) :
        output_results[i] = SkippedResult(groups[j].definition_file)

ApplyAllSkipAllOutcome ==
    /\ apply_to_all_definitions =>
           \A j \in LastPresentedGroup..Len(groups) :
               Completed(j) =>
                   LET d == groups[j].definition_file.file_path
                   IN  /\ j > LastPresentedGroup => d \notin SeqToSet(presented)
                       /\ d \in SeqToSet(written)
                       /\ ~WriteFailed(d) =>
                              /\ HoldsTransformed(d)
                              /\ \A f \in UsageFiles(groups[j]) :
                                     /\ CascadeResult(f)
                                     /\ f \in SeqToSet(written)
                                     /\ ~WriteFailed(f) => HoldsTransformed(f)
    /\ skip_all_definitions =>
           \A j \in LastPresentedGroup..Len(groups) :
               Completed(j) =>
                   /\ j > LastPresentedGroup =>
                          groups[j].definition_file.file_path \notin SeqToSet(presented)
                   /\ Skipped(j)
                   /\ groups[j].definition_file.file_path \notin SeqToSet(written)

Grouped(f) == results[f].success /\ HasActualChanges(results[f])

\* the symbols the recorded changes of file f rename
RenamedSymbols(f) == SeqToSet(ExtractChangedSymbols(results[f]))

(***************************************************************************)
(* C20.  Group linking: after the grouping, a usage file is a usage member *)
(* of the group of a definition file if and only if its recorded changes   *)
(* rename a symbol the definition file's changes rename; a usage file      *)
(* linked to no definition file is the definition file of a group without  *)
(* usage files, placed after the groups of all definition files.  Stated   *)
(* as the claim states it; `symbol in change` is a substring test, which   *)
(* links a usage file renaming xq to a definition file renaming x.         *)
(***************************************************************************)
C20_LinkedIffSharedRenamedSymbol ==
    pc # "idle" =>
        \A u \in 1..Len(results) :
            (Grouped(u) /\ ~IsDefinitionFile(results[u])) =>
                /\ \A d \in 1..Len(results) :
                       (Grouped(d) /\ IsDefinitionFile(results[d])) =>
                           ((\E j \in OwnerGroups(d) : u \in UsageFiles(groups[j]))
                               <=> RenamedSymbols(u) \cap RenamedSymbols(d) # {})
                /\ MemberGroups(u) = {} =>
                       \E j \in OwnerGroups(u) :
                           /\ groups[j].usage_files = <<>>
                           /\ \A i \in 1..Len(groups) :
                                  IsDefinitionFile(groups[i].definition_file) => i < j

\* the declarations among which the canonical one is to be chosen: those outside the test
\* paths when there are any, else all of them
Candidates(defs) ==
    IF \E i \in 1..Len(defs) : ~IsTestPath(e_project[defs[i].file_path].path)
    THEN SelectSeq(defs, LAMBDA d : ~IsTestPath(e_project[d.file_path].path))
    ELSE defs

\* d is the earliest of the shallowest declarations of the sequence
EarliestOfShallowest(d, defs) ==
    \E i \in 1..Len(defs) :
        /\ defs[i] = d
        /\ \A j \in 1..Len(defs) :
               PathParts(e_project[d.file_path].path)
                   <= PathParts(e_project[defs[j].file_path].path)
        /\ \A j \in 1..(i - 1) :
               PathParts(e_project[defs[j].file_path].path)
                   > PathParts(e_project[d.file_path].path)

(***************************************************************************)
(* C21.  Canonical definition, as the claim states it: for every name the  *)
(* project declares, the primary definition is the only declaration when   *)
(* there is one, and otherwise the earliest of the shallowest declarations *)
(* among those outside the test paths or, when every declaration lies in a *)
(* test path, among all of them.  The code returns the first declaration   *)
(* when all lie in test paths, whatever its depth.                         *)
(***************************************************************************)
C21_CanonicalDefinitionByPreference ==
    e_pc = "processed" =>
        \A name \in {d.name : d \in SeqToSet(Definitions(e_project))} :
            LET defs == DefinitionsOf(e_project, name)
            IN  EarliestOfShallowest(GetPrimaryDefinition(e_project, defs), Candidates(defs))

\* the renames of the file-local pass and of the plan for file f of the project
LocalOf(f) ==
    IF HasNamingRulesEnabled(e_config)
    THEN LocalTransformations(e_config, ExtractCodeElements(e_project[f].lines))
    ELSE <<>>

CrossOf(f) == GetTransformationsForFile(e_plan, f)

\* the change descriptions of the result of file f that rename `old`
ChangesFor(f, old) ==
    SelectSeq(e_results[f].changes_made, LAMBDA c : c.kind = "rename" /\ c.old = old)

(***************************************************************************)
(* C22.  Merge precedence.  For every file that was processed and every    *)
(* old name that both the plan and the file-local pass rename in it, the   *)
(* merged rename set maps the old name to the new name of the plan, and    *)
(* the result records exactly one change description for the old name,     *)
(* tagged cross-file and naming the plan's new name.                       *)
(***************************************************************************)
C22_PlanOverridesLocalRename ==
    e_pc = "processed" =>
        \A f \in 1..Len(e_project) :
            e_results[f].success =>
                \A old \in OldNames(LocalOf(f)) \cap OldNames(CrossOf(f)) :
                    /\ Lookup(CombinedForFile(e_project, e_plan, e_config, f), old)
                           = Lookup(CrossOf(f), old)
                    /\ \E i \in 1..Len(e_plan) :
                           /\ e_plan[i].old_name = old
                           /\ e_plan[i].new_name = Lookup(CrossOf(f), old)
                    /\ Len(ChangesFor(f, old)) = 1
                    /\ ChangesFor(f, old)[1].cross
                    /\ ChangesFor(f, old)[1].new = Lookup(CrossOf(f), old)

\* a file was processed in which the plan and the file-local pass rename the same old
\* name to different new names
C22_Witness ==
    /\ e_pc = "processed"
    /\ \E f \in 1..Len(e_project) :
           /\ e_results[f].success
           /\ \E old \in OldNames(LocalOf(f)) \cap OldNames(CrossOf(f)) :
                  Lookup(LocalOf(f), old) # Lookup(CrossOf(f), old)

(***************************************************************************)
(* C23.  Skip isolates the group, as the claim states it: when a skipped   *)
(* result is recorded for the definition file of a group (by the user's    *)
(* Skip or by skip-all), no usage file of that group is written at any     *)
(* time of the run: no write of it is made, the file on disk is the        *)
(* original and no output file exists for it.  A usage file that is also   *)
(* a member of another group, which is applied, refutes it.                *)
(***************************************************************************)
C23_SkipIsolatesTheGroup ==
    \A j \in 1..Len(groups) :
        Skipped(j) =>
            \A f \in UsageFiles(groups[j]) :
                /\ f \notin SeqToSet(written)
                /\ disk[f] = "orig"
                /\ newfiles[f] = {}

\* the number of writes of file f made so far in the call
WritesOf(f) == Cardinality({i \in 1..Len(written) : written[i] = f})

(***************************************************************************)
(* C24.  Single write per file, as the claim states it: at every moment of *)
(* a call of process_cross_file_results at most one write of each file has *)
(* been made, and in new_files mode at most one output file exists for     *)
(* each source file.  A usage file that is a member of two applied groups  *)
(* is written once by the cascade of each.                                 *)
(***************************************************************************)
C24_EachFileWrittenAtMostOnce ==
    \A f \in 1..Len(results) :
        /\ WritesOf(f) <= 1
        /\ output_mode = "new_files" => Cardinality(newfiles[f]) <= 1

\* the write of the definition file of group j raised
DefinitionWriteFailed(j) ==
    \E i \in 1..Len(output_results) :
        /\ output_results[i].file_path = groups[j].definition_file.file_path
        /\ output_results[i].is_definition_file
        /\ output_results[i].error_message = "write error"

(***************************************************************************)
(* C25.  Write failure during apply, as the claim states it.  A step whose *)
(* write raises records a failed result for the file and leaves the loop   *)
(* running, with the next usage file or the next group; no step takes the  *)
(* transformed text away from a file that holds it; and when the write of  *)
(* a group's definition file has raised, no write of a usage file of that  *)
(* group is made.  The loop does all this group by group, but a usage file *)
(* that is also a member of another group is written by that group's       *)
(* cascade, and written again over the text it already holds.              *)
(***************************************************************************)
C25_WriteFailureIsRecordedAndContained ==
    [][/\ faults' # faults =>
              /\ Len(output_results') = Len(output_results) + 1
              /\ ~output_results'[Len(output_results')].success
              /\ output_results'[Len(output_results')].file_path = written'[Len(written')]
              /\ pc' \in {"loop", "usages"}
       /\ \A f \in 1..Len(results) : HoldsTransformed(f) => HoldsTransformed(f)'
       /\ \A j \in 1..Len(groups') :
              DefinitionWriteFailed(j)' =>
                  \A f \in UsageFiles(groups'[j]) : f \notin SeqToSet(written')]_vars

\* the processing of some file of the list failed
SomeFileFailed == \E f \in 1..Len(e_results) : ~e_results[f].success

\* the processing of file f succeeded and changed its text
ProcessedWithChanges(f) ==
    /\ e_results[f].success
    /\ e_results[f].transformed_code # e_results[f].original_code

(***************************************************************************)
(* C26.  All-or-nothing gate before the apply phase: once process_project  *)
(* has returned with the result of some file a failure, the run is over;   *)
(* no group is built, no confirmation is requested, no result of the apply *)
(* phase exists and no file holds anything but the text it had, the files  *)
(* whose own processing succeeded included.                                *)
(***************************************************************************)
C26_AnyFailedFileStopsBeforeApply ==
    (e_pc = "processed" /\ SomeFileFailed) =>
        /\ pc = "done"
        /\ groups = <<>>
        /\ presented = <<>>
        /\ written = <<>>
        /\ output_results = <<>>
        /\ \A f \in 1..MaxFiles : disk[f] = "orig"

\* one file failed, another was processed with changes, and the run has ended
C26_Witness ==
    /\ e_pc = "processed"
    /\ pc = "done"
    /\ \E f, g \in 1..Len(e_results) :
           /\ ~e_results[f].success
           /\ ProcessedWithChanges(g)

\* the names declared in the project
DeclaredNames == {d.name : d \in SeqToSet(Definitions(e_project))}

(***************************************************************************)
(* C28.  The rename plan never merges distinct symbols, as the claim       *)
(* states it: the plan has at most one entry per old name, no entry        *)
(* renames a name to itself, no two entries with different old names share *)
(* a new name, and no new name is a name that is declared in the project   *)
(* and is not itself renamed.                                              *)
(***************************************************************************)
C28_PlanNeverMergesSymbols ==
    e_pc = "processed" =>
        /\ \A i, j \in 1..Len(e_plan) :
               e_plan[i].old_name = e_plan[j].old_name => i = j
        /\ \A i \in 1..Len(e_plan) : e_plan[i].new_name # e_plan[i].old_name
        /\ \A i, j \in 1..Len(e_plan) :
               e_plan[i].old_name # e_plan[j].old_name =>
                   e_plan[i].new_name # e_plan[j].new_name
        /\ \A i \in 1..Len(e_plan) :
               e_plan[i].new_name \in DeclaredNames =>
                   \E j \in 1..Len(e_plan) : e_plan[j].old_name = e_plan[i].new_name

\* the three flags of the manager
Flags == <<apply_to_all_definitions, skip_all_definitions, quit_requested>>

SomeFlagSet == apply_to_all_definitions \/ skip_all_definitions \/ quit_requested

(***************************************************************************)
(* C29.  Controller flags: apply-all and skip-all are never both set; a    *)
(* flag changes only in the step that takes the answer of the confirmation *)
(* channel; a flag that is set stays set; and once a flag is set the       *)
(* channel is not called again.                                            *)
(***************************************************************************)
C29_FlagsExclusiveMonotoneAndFinal ==
    [][/\ ~(apply_to_all_definitions' /\ skip_all_definitions')
       /\ Flags' # Flags => pc = "confirm"
       /\ apply_to_all_definitions => apply_to_all_definitions'
       /\ skip_all_definitions => skip_all_definitions'
       /\ quit_requested => quit_requested'
       /\ SomeFlagSet => (presented' = presented /\ pc' # "confirm")]_vars

\* skip-all was given on the first of two groups or more and the loop went through the
\* rest without another call of the channel
C29_Witness ==
    /\ skip_all_definitions /\ ~apply_to_all_definitions /\ ~quit_requested
    /\ pc = "done"
    /\ Len(groups) >= 2 /\ Len(presented) = 1
    /\ \A j \in 1..Len(groups) : Skipped(j)

\* the groups the loop has reached: the ones it is done with and the one it is at
GroupsReached ==
    IF pc \in {"idle", "analysis"} THEN {}
    ELSE {j \in 1..Len(groups) : j < gi \/ (j = gi /\ pc \in {"confirm", "usages", "done"})}

\* the results of the definition file of group j
DefinitionResults(j) ==
    {i \in 1..Len(output_results) :
        /\ output_results[i].is_definition_file
        /\ output_results[i].file_path = groups[j].definition_file.file_path}

\* the calls of the confirmation channel for group j
Confirmations(j) ==
    {i \in 1..Len(presented) : presented[i] = groups[j].definition_file.file_path}

(***************************************************************************)
(* C30.  Termination of the apply phase.  With a channel that answers      *)
(* every request and writes that return, process_cross_file_results comes  *)
(* to its end; it never asks more than one confirmation for a group, and   *)
(* at its end it returns one result for every group it reached.  While a   *)
(* request is open, nothing but its answer lets the apply phase go on: no  *)
(* step of the loop can be taken, so with a channel that never answers it  *)
(* stays at that confirmation and writes nothing.                          *)
(***************************************************************************)
C30_ApplyPhaseTerminatesOrBlocksAtConfirmation ==
    /\ <>(pc = "done")
    /\ [](\A j \in 1..Len(groups) : Cardinality(Confirmations(j)) <= 1)
    /\ [](pc = "done" =>
             /\ \A j \in GroupsReached : Cardinality(DefinitionResults(j)) = 1
             /\ \A j \in 1..Len(groups) : j \notin GroupsReached => DefinitionResults(j) = {})
    /\ [](pc = "confirm" => ~ENABLED ControllerStep)

\* the loop came to its end after a confirmation for each of two groups or more,
\* with writes made
C30_Witness ==
    /\ pc = "done"
    /\ Len(groups) >= 2 /\ Len(presented) = Len(groups)
    /\ written # <<>>
    /\ ~quit_requested

\* the original text of the file can still be read from the target or its backup
OriginalRecoverable == w_target = "orig" \/ w_backup = "orig"

(***************************************************************************)
(* C4: crash-safe in-place write.  Whenever the writer is at rest after a  *)
(* call in in_place mode (it returned, raised or was killed, in a first    *)
(* run or a re-run), the target holds the complete original or the         *)
(* complete new text, and unless it holds the new text the original can    *)
(* still be recovered.                                                     *)
(***************************************************************************)
C4_CrashSafeInPlaceWrite ==
    (w_mode = "in_place" /\ w_pc \in {"returned", "raised", "crashed"}) =>
        /\ w_target \in {"orig", "new"}
        /\ w_target # "new" => OriginalRecoverable



(***************************************************************************)
(* Helpers of the properties of a run.                                     *)
(***************************************************************************)
ElementNames(f) == {e.name : e \in SeqToSet(ExtractCodeElements(e_project[f].lines))}

UsedNames(f) == {u.name : u \in SeqToSet(FileUsages(e_project, f))}

\* file f declares, imports or uses the name
Mentions(f, name) ==
    name \in ElementNames(f) \cup ImportedNames(e_project, f) \cup UsedNames(f)

\* the transformed text of file f has `new` where its original text had `old`
RenamesTo(f, old, new) ==
    /\ e_results[f].success
    /\ old \in OldNames(CombinedForFile(e_project, e_plan, e_config, f))
    /\ Lookup(CombinedForFile(e_project, e_plan, e_config, f), old) = new
    /\ CountWord(e_results[f].original_code, old) > 0
    /\ CountWord(e_results[f].transformed_code, old) = 0
    /\ CountWord(e_results[f].transformed_code, new) > 0

\* file a declares the name and nothing else, file b only calls it, the plan renames it
DeclaredHereCalledThere(a, b, name) ==
    /\ a # b
    /\ ElementNames(a) = {name}
    /\ UsedNames(a) = {} /\ ImportedNames(e_project, a) = {}
    /\ ElementNames(b) = {} /\ ImportedNames(e_project, b) = {}
    /\ UsedNames(b) = {name}
    /\ \E u \in SeqToSet(FileUsages(e_project, b)) : u.context = sFunctionCall
    /\ \E i \in 1..Len(e_plan) : e_plan[i].old_name = name

RenameChangesOf(f, name) ==
    SelectSeq(e_results[f].changes_made, LAMBDA c : c.kind = "rename" /\ c.old = name)

(***************************************************************************)
(* C3.  The cascade scenario end to end, as the claim states it: when file *)
(* a declares a name, file b only calls it and the plan renames it, the    *)
(* results carry the rename of a without the cross-file marker and the     *)
(* rename of b with it; the controller then forms one group, a with the    *)
(* usage file b, presents a and nothing else, and once a is applied b      *)
(* holds its transformed text.  The code violates it: the rename of a      *)
(* carries the marker too.                                                 *)
(***************************************************************************)
C3_CascadeScenarioEndToEnd ==
    \A a, b \in 1..Len(e_project) : \A name \in ElementNames(a) :
        (e_pc = "processed" /\ DeclaredHereCalledThere(a, b, name)) =>
            /\ RenameChangesOf(a, name) # <<>>
            /\ \A c \in SeqToSet(RenameChangesOf(a, name)) : ~IsSubstr(sMarker, ChangeText(c))
            /\ RenameChangesOf(b, name) # <<>>
            /\ \A c \in SeqToSet(RenameChangesOf(b, name)) : IsSubstr(sMarker, ChangeText(c))
            /\ pc \in {"loop", "confirm", "usages", "done"} =>
                   /\ Len(groups) = 1
                   /\ groups[1].definition_file.file_path = a
                   /\ UsageFiles(groups[1]) = {b}
            /\ pc = "done" => presented = <<a>>
            /\ (pc = "done" /\ Applied(1)) => disk[b] = "new"

(***************************************************************************)
(* C5.  Project-wide consistency of a rename, as the claim states it: once *)
(* process_project has returned, if the transformed text of one file       *)
(* renames a name, every other file that declares, imports or uses the     *)
(* name has it renamed to the same new name in its transformed text.  The  *)
(* code violates it.                                                       *)
(***************************************************************************)
C5_RenameConsistentAcrossFiles ==
    e_pc = "processed" =>
        \A f, g \in 1..Len(e_project) :
            \A p \in SeqToSet(CombinedForFile(e_project, e_plan, e_config, f)) :
                (f # g /\ RenamesTo(f, p[1], p[2]) /\ Mentions(g, p[1])) =>
                    /\ e_results[g].success
                    /\ CountWord(e_results[g].transformed_code, p[1]) = 0
                    /\ CountWord(e_results[g].transformed_code, p[2]) > 0

(***************************************************************************)
(* C7.  Run-level idempotence, as the claim states it: when a run has      *)
(* written the transformed text of every file it changed, the plan of the  *)
(* next run on the project, with the same configuration, is empty.  The    *)
(* code violates it.                                                       *)
(***************************************************************************)
C7_SecondRunPlanEmpty ==
    (e_run > 1 /\ e_plan_applied /\ e_pc = "processed") => e_plan = <<>>


\* the module-level assignments of file f to an all-uppercase name
ConstantNames(f) ==
    {e.name : e \in {d \in SeqToSet(ExtractCodeElements(e_project[f].lines)) :
                        d.element_type = "constant"}}

(***************************************************************************)
(* C11.  Disabled policy, as the claim states it: when the rule for        *)
(* constants is off, a name that a file of the project binds by a          *)
(* module-level assignment to an all-uppercase name is the old name of no  *)
(* plan entry, and every file that is processed has as many occurrences of *)
(* the name after the transformation as before.  The code violates it.     *)
(***************************************************************************)
C11_DisabledConstantPolicyLeavesName ==
    (e_pc = "processed" /\ "constant_naming" \notin e_config.enabled_rules) =>
        \A f \in 1..Len(e_project) :
            Parses(e_project[f].lines) =>
                \A name \in ConstantNames(f) :
                    /\ \A i \in 1..Len(e_plan) : e_plan[i].old_name # name
                    /\ \A g \in 1..Len(e_project) :
                           e_results[g].success =>
                               CountWord(e_results[g].transformed_code, name)
                                   = CountWord(e_results[g].original_code, name)


(***************************************************************************)
(* Reading a text as identifiers and the characters between them.          *)
(***************************************************************************)
\* the last position of the run of word characters that starts at i
RECURSIVE WordEnd(_, _)
WordEnd(text, i) == IF IsWordAt(text, i + 1) THEN WordEnd(text, i + 1) ELSE i

\* the maximal runs of word characters, in order
RECURSIVE WordsFrom(_, _)
WordsFrom(text, i) ==
    IF i > Len(text) THEN <<>>
    ELSE IF IsWordAt(text, i)
         THEN <<SubSeq(text, i, WordEnd(text, i))>> \o WordsFrom(text, WordEnd(text, i) + 1)
         ELSE WordsFrom(text, i + 1)

Words(text) == WordsFrom(text, 1)

\* the text with every such run replaced by "$": its whitespace, punctuation, comment
\* marks and line ends, in place
RECURSIVE SkeletonFrom(_, _)
SkeletonFrom(text, i) ==
    IF i > Len(text) THEN <<>>
    ELSE IF IsWordAt(text, i)
         THEN <<"$">> \o SkeletonFrom(text, WordEnd(text, i) + 1)
         ELSE <<text[i]>> \o SkeletonFrom(text, i + 1)

Skeleton(text) == SkeletonFrom(text, 1)

\* the text without its comments
RECURSIVE CodeOnlyFrom(_, _, _)
CodeOnlyFrom(text, i, in_comment) ==
    IF i > Len(text) THEN <<>>
    ELSE IF text[i] = "\n" THEN <<"\n">> \o CodeOnlyFrom(text, i + 1, FALSE)
    ELSE IF in_comment \/ text[i] = "#" THEN CodeOnlyFrom(text, i + 1, TRUE)
    ELSE <<text[i]>> \o CodeOnlyFrom(text, i + 1, FALSE)

CodeOnly(text) == CodeOnlyFrom(text, 1, FALSE)

\* `after` is `before` with nothing changed but whole identifiers that name an old
\* name of m, each replaced by its new name
OnlyRenamesApplied(before, after, m) ==
    /\ Skeleton(after) = Skeleton(before)
    /\ Len(Words(after)) = Len(Words(before))
    /\ \A k \in 1..Len(Words(before)) :
          LET w == Words(before)[k]
              v == Words(after)[k]
          IN  IF w \in OldNames(m)
              THEN /\ v \in NewNames(m)
                   /\ (OldNames(m) \cap NewNames(m) = {}) => v = Lookup(m, w)
              ELSE v = w

\* every identifier of `before` that is not an old name of m is still there, and every
\* old name is still there or has become its own new name
IdentifiersIntact(before, after, m) ==
    /\ Len(Words(after)) = Len(Words(before))
    /\ \A k \in 1..Len(Words(before)) :
          LET w == Words(before)[k]
              v == Words(after)[k]
          IN  IF w \in OldNames(m) THEN v \in {w, Lookup(m, w)} ELSE v = w

\* the identifier w after every rename of m has been applied to the original at once
RenamedAtOnce(w, m) == IF w \in OldNames(m) THEN Lookup(m, w) ELSE w

(***************************************************************************)
(* C27.  Simultaneous substitution, as the claim states it: the            *)
(* identifiers of the transformed text of a file are the identifiers of    *)
(* its original text, each replaced at once by its own new name in the     *)
(* merged rename set of the file; no identifier produced by one rename is  *)
(* rewritten by another.                                                   *)
(***************************************************************************)
C27_RenamesAppliedSimultaneously ==
    e_pc = "processed" =>
        \A f \in 1..Len(e_results) :
            e_results[f].success =>
                LET m == CombinedForFile(e_project, e_plan, e_config, f)
                    before == Words(CodeOnly(e_results[f].original_code))
                    after == Words(CodeOnly(e_results[f].transformed_code))
                IN  /\ Len(after) = Len(before)
                    /\ \A k \in 1..Len(before) : after[k] = RenamedAtOnce(before[k], m)

C8_NoOldNameLeftInEitherMode ==
    t_pc = "processed" =>
        \A i \in 1..Len(t_transformations) :
            LET old == t_transformations[i][1]
                new == t_transformations[i][2]
            IN  /\ CountWord(CodeOnly(t_code), old) = 0
                /\ CountWord(CodeOnly(t_code), new)
                       >= CountWord(CodeOnly(FileText(t_file)), old)

\* the paths that substitute in the text: the text mode of the per-file transformer and
\* the import, usage and definition passes of the cross-file transformer
TextPathDone ==
    \/ t_pc = "processed" /\ t_enabled = "False"
    \/ t_pc = "transformed"

(***************************************************************************)
(* C9: ordering safety of textual substitution, in every path.  After a    *)
(* textual substitution path has run (the import-rewriting fallback for a  *)
(* file that does not parse included), every identifier that is not an old *)
(* name is intact and every old name is intact or rewritten by its own     *)
(* rename.                                                                 *)
(***************************************************************************)
C9_LongerIdentifiersIntactInEveryPath ==
    (TextPathDone /\ t_transformations # <<>>) =>
        IdentifiersIntact(FileText(t_file), t_code, t_transformations)

\* from mod import <name> as F
ImportAsLine(name) ==
    kwFrom \o SP \o nMod \o SP \o kwImport \o SP \o name \o SP \o kwAs \o SP \o nF

(***************************************************************************)
(* C10: import rewrite with alias.  For a file that holds                  *)
(* 'from mod import Foo as F' and a rename Foo -> Thing, the transformed   *)
(* text holds 'from mod import Thing as F' and as many F as before.        *)
(***************************************************************************)
C10_ImportAliasRewritten ==
    (/\ t_pc = "processed"
     /\ IsSubstr(ImportAsLine(nFoo), FileText(t_file))
     /\ nFoo \in OldNames(t_transformations)) =>
        /\ IsSubstr(ImportAsLine(Lookup(t_transformations, nFoo)), t_code)
        /\ CountWord(CodeOnly(t_code), nF) = CountWord(CodeOnly(FileText(t_file)), nF)


=============================================================================
